---------------------------- MODULE Spec2Model ----------------------------
(***************************************************************************)
(* QZSS DC report analysis scripts (src/scripts/*.py) as a state machine.  *)
(*                                                                         *)
(* Text is modelled as a sequence of tokens.  A token is a string that the *)
(* code never looks inside: the year prefix "2025/", a comma, a blank, a   *)
(* newline, a two-digit number, a marker substring of a message, a word.   *)
(* Python's  s.startswith(p),  p in s,  s.strip()  and  s.split(',', 4)    *)
(* are computed on these sequences.                                        *)
(*                                                                         *)
(* The Japanese literals of the source are written in romanised form:      *)
(*   "SAIKI(KISHO)"   = saiki-tsuho (kisho)    weather category marker     *)
(*   "SAIKI(SHINGEN)" = saiki-tsuho (shingen)  earthquake category marker  *)
(*   "SAIKI(KAIJO)"   = saiki-tsuho (kaijo)    marine category marker      *)
(*   "SAIKI(KOZUI)"   = saiki-tsuho (kozui)    flood category marker       *)
(*   "DOSHA-SAIGAI-KEIKAI-JOHO"  sediment disaster warning sub-marker      *)
(*   "OAME-KEIHO"                heavy rain warning sub-marker             *)
(*   "KOZUI-KEIHO"               flood warning sub-marker                  *)
(*   "KAIJO-NOMU-KEIHO"          marine dense fog warning sub-marker       *)
(*   "KAIJO-KAZE-KEIHO"          marine wind warning sub-marker            *)
(*   "HANRAN-KEIKAI-JOHO"        flood risk information sub-marker         *)
(* and the Japanese labels as sequences of the romanised words the         *)
(* keyword tests of generate_detailed_report look for (KISHO, JISHIN,      *)
(* KAIJO, KOZUI, DOSHA, HANRAN, SONOTA, ...).                              *)
(***************************************************************************)
EXTENDS Integers, Sequences, FiniteSets, TLC

VARIABLES
    script,            \* which of the four scripts runs
    lines,             \* f.readlines(): the input, a sequence of lines
    pc,                \* the statement of main() the run is at
    i,                 \* index of the next line of the parse loop
    objs,              \* the record dicts created so far (the heap)
    data,              \* list `data`: references (indices into objs)
    current_record,    \* reference to the open record, 0 for None
    df,                \* the DataFrame returned by the load function
    dc_reports,        \* frame returned by analyze_disaster_types
    dc_reports_detailed, \* frame returned by the detail classifier
    hourly_counts,     \* series returned by analyze_temporal_patterns
    hourly_df,         \* frame of create_hourly_trend_visualization
    charts,            \* data drawn into the charts, by chart name
    report,            \* values written into the report, by name
    printed,           \* values printed by the analysis functions, by name
    msg,               \* SpecClassify: the message being classified
    cls                \* SpecClassify: the labels computed for msg

vars == <<script, lines, pc, i, objs, data, current_record, df, dc_reports,
          dc_reports_detailed, hourly_counts, hourly_df, charts, report,
          printed, msg, cls>>

pipelineVars == <<script, lines, pc, i, objs, data, current_record, df,
                  dc_reports, dc_reports_detailed, hourly_counts, hourly_df,
                  charts, report, printed>>

---------------------------------------------------------------------------
(* Bounds of the model *)

MaxLines == 3          \* longest input, in lines

MaxMsgTokens == 4      \* longest message of SpecClassify, in tokens

MaxRepeat == 2         \* SpecReport: most records with the same detail label

---------------------------------------------------------------------------
(* Tokens and string operations *)

NL == "\n"

WS == " "

COMMA == ","

YEAR_PREFIX == "2025/"

Range(s) == {s[k] : k \in 1..Len(s)}

\* Python `marker in text` for a marker the text holds as one token.
Contains(text, marker) == marker \in Range(text)

IsSpace(t) == t \in {WS, NL}

RECURSIVE lstrip(_)
lstrip(s) ==
    IF s # <<>> /\ IsSpace(Head(s)) THEN lstrip(Tail(s)) ELSE s

RECURSIVE rstrip(_)
rstrip(s) ==
    IF s # <<>> /\ IsSpace(s[Len(s)])
    THEN rstrip(SubSeq(s, 1, Len(s) - 1))
    ELSE s

\* line.strip()
strip(s) == rstrip(lstrip(s))

\* line.startswith('2025/')
startswith(s, prefix) == s # <<>> /\ Head(s) = prefix

\* Index of the first separator in s, 0 when there is none.
RECURSIVE find(_, _, _)
find(s, sep, from) ==
    IF from > Len(s) THEN 0
    ELSE IF s[from] = sep THEN from
    ELSE find(s, sep, from + 1)

\* The split at every separator, whatever maxsplit is.
RECURSIVE split_all(_, _, _)
split_all(s, sep, maxsplit) ==
    LET k == find(s, sep, 1) IN
    IF k = 0 THEN <<s>>
    ELSE <<SubSeq(s, 1, k - 1)>>
         \o split_all(SubSeq(s, k + 1, Len(s)), sep, maxsplit)

\* s.split(sep, maxsplit): at most maxsplit cuts, the rest is the last part.
RECURSIVE split(_, _, _)
split(s, sep, maxsplit) ==
    LET k == find(s, sep, 1) IN
    IF maxsplit = 0 \/ k = 0 THEN <<s>>
    ELSE <<SubSeq(s, 1, k - 1)>>
         \o split(SubSeq(s, k + 1, Len(s)), sep, maxsplit - 1)

---------------------------------------------------------------------------
(* Timestamps: pd.to_datetime(..., format='%Y/%m/%d %H:%M:%S JST') *)

TwoDigits ==
    <<
      "00", "01", "02", "03", "04", "05", "06", "07", "08", "09",
      "10", "11", "12", "13", "14", "15", "16", "17", "18", "19",
      "20", "21", "22", "23", "24", "25", "26", "27", "28", "29",
      "30", "31", "32", "33", "34", "35", "36", "37", "38", "39",
      "40", "41", "42", "43", "44", "45", "46", "47", "48", "49",
      "50", "51", "52", "53", "54", "55", "56", "57", "58", "59"
    >>

IsTwoDigits(t) == \E n \in 1..Len(TwoDigits) : TwoDigits[n] = t

\* int() of a two-digit token
to_int(t) == (CHOOSE n \in 1..Len(TwoDigits) : TwoDigits[n] = t) - 1

\* An instant, in seconds.  Months count as 31 days: the encoding keeps the
\* order of valid dates and the hour of the day, which is all the code uses.
MkInstant(month, day, hour, minute, second) ==
    ((((month * 31 + day) * 24 + hour) * 60) + minute) * 60 + second

\* Whether the text matches the fixed format  YYYY/MM/DD HH:MM:SS JST
\* (the year and its slash are the token YEAR_PREFIX).
matches_format(f) ==
    /\ Len(f) = 12
    /\ f[1] = YEAR_PREFIX
    /\ f[3] = "/" /\ f[5] = WS /\ f[7] = ":" /\ f[9] = ":" /\ f[11] = WS
    /\ f[12] = "JST"
    /\ \A k \in {2, 4, 6, 8, 10} : IsTwoDigits(f[k])
    /\ to_int(f[2]) \in 1..12
    /\ to_int(f[4]) \in 1..31
    /\ to_int(f[6]) \in 0..23
    /\ to_int(f[8]) \in 0..59
    /\ to_int(f[10]) \in 0..59

to_datetime(f) ==
    MkInstant(to_int(f[2]), to_int(f[4]), to_int(f[6]), to_int(f[8]),
              to_int(f[10]))

\* pd.to_datetime('2025-08-22 00:00:00')
filter_date == MkInstant(8, 22, 0, 0, 0)

\* timestamp.dt.hour and timestamp.dt.date
dt_hour(ts) == (ts \div 3600) % 24

dt_date(ts) == ts \div 86400

---------------------------------------------------------------------------
(* The input file *)

TS(mm, dd, HH, MM, SS) ==
    <<YEAR_PREFIX, mm, "/", dd, WS, HH, ":", MM, ":", SS, WS, "JST">>

\* <timestamp>,<report_type>,<satellite>,<priority>,<message-first-line>
RecordLine(ts, report_type, satellite, priority, message) ==
    ts \o <<COMMA, report_type, COMMA, satellite, COMMA, priority, COMMA>>
       \o message \o <<NL>>

LineBeforeCutoff ==
    RecordLine(TS("08", "21", "23", "59", "59"), "DC Report", "QZSS-7", "1",
               <<"SAIKI(KISHO)", "OAME-KEIHO">>)

LineAtCutoff ==
    RecordLine(TS("08", "22", "00", "00", "00"), "DC Report", "QZSS-7", "1",
               <<"SAIKI(KAIJO)", "KAIJO-KAZE-KEIHO">>)

LineFloodWarning ==
    RecordLine(TS("08", "22", "06", "00", "00"), "DC Report", "QZSS-3", "1",
               <<"SAIKI(KISHO)", "KOZUI-KEIHO">>)

LineDCX ==
    RecordLine(TS("08", "22", "06", "00", "05"), "DCX", "QZSS-3", "2",
               <<"Test message", COMMA, "with comma">>)

\* A line with the record-start signature and only 2 comma-separated fields.
LineMalformed ==
    TS("08", "22", "07", "00", "00") \o <<COMMA, "DC Report", NL>>

\* A record-start line with 5 fields whose timestamp has no seconds.
LineBadTimestamp ==
    <<YEAR_PREFIX, "08", "/", "22", WS, "06", ":", "00", WS, "JST", COMMA,
      "DCX", COMMA, "QZSS-3", COMMA, "2", COMMA, "Test message", NL>>

LineContinuation == <<WS, "continuation of test", WS, NL>>

LineContinuationMarker == <<"SAIKI(SHINGEN)", NL>>

LineBlank == <<WS, NL>>

LinePool ==
    {LineBeforeCutoff, LineAtCutoff, LineFloodWarning, LineDCX, LineMalformed,
     LineBadTimestamp, LineContinuation, LineContinuationMarker, LineBlank}

Inputs == UNION {[1..n -> LinePool] : n \in 0..MaxLines}

Scripts == {"analyze_dc_reports", "detailed_analysis", "filtered_analysis",
            "hourly_trend_analysis"}

\* The scripts that filter the parsed records by filter_date.
Filtering == {"filtered_analysis", "hourly_trend_analysis"}

---------------------------------------------------------------------------
(* The classifiers: ordered substring tests on the message *)

WEATHER_MARKER == "SAIKI(KISHO)"

EARTHQUAKE_MARKER == "SAIKI(SHINGEN)"

MARINE_MARKER == "SAIKI(KAIJO)"

FLOOD_MARKER == "SAIKI(KOZUI)"

SEDIMENT_SUB == "DOSHA-SAIGAI-KEIKAI-JOHO"

HEAVY_RAIN_SUB == "OAME-KEIHO"

FLOOD_WARNING_SUB == "KOZUI-KEIHO"

DENSE_FOG_SUB == "KAIJO-NOMU-KEIHO"

MARINE_WIND_SUB == "KAIJO-KAZE-KEIHO"

FLOOD_RISK_SUB == "HANRAN-KEIKAI-JOHO"

\* analyze_dc_reports.analyze_disaster_types, the body of its loop:
\* KISHO = weather, JISHIN = earthquake, KAIJO = marine, KOZUI = flood,
\* SONOTA = other.
disaster_type_ja(message) ==
    IF Contains(message, WEATHER_MARKER) THEN "KISHO"
    ELSE IF Contains(message, EARTHQUAKE_MARKER) THEN "JISHIN"
    ELSE IF Contains(message, MARINE_MARKER) THEN "KAIJO"
    ELSE IF Contains(message, FLOOD_MARKER) THEN "KOZUI"
    ELSE "SONOTA"

\* The earthquake marker tested before the weather marker.
disaster_type_en_reordered(message) ==
    IF Contains(message, EARTHQUAKE_MARKER) THEN "Earthquake"
    ELSE IF Contains(message, WEATHER_MARKER) THEN "Weather"
    ELSE IF Contains(message, MARINE_MARKER) THEN "Marine"
    ELSE IF Contains(message, FLOOD_MARKER) THEN "Flood"
    ELSE "Other"

\* filtered_analysis.analyze_disaster_types, the body of its loop.
disaster_type_en(message) ==
    IF Contains(message, WEATHER_MARKER) THEN "Weather"
    ELSE IF Contains(message, EARTHQUAKE_MARKER) THEN "Earthquake"
    ELSE IF Contains(message, MARINE_MARKER) THEN "Marine"
    ELSE IF Contains(message, FLOOD_MARKER) THEN "Flood"
    ELSE "Other"

\* The detail classifier without its last branch: a message with no
\* category marker falls into the branch before it.
disaster_detail_en_no_default(message) ==
    IF Contains(message, WEATHER_MARKER) THEN
        IF Contains(message, SEDIMENT_SUB)
        THEN <<"Sediment", "Disaster", "Warning">>
        ELSE IF Contains(message, HEAVY_RAIN_SUB)
        THEN <<"Heavy", "Rain", "Warning">>
        ELSE IF Contains(message, FLOOD_WARNING_SUB)
        THEN <<"Flood", "Warning">>
        ELSE <<"Weather", "Other">>
    ELSE IF Contains(message, EARTHQUAKE_MARKER) THEN
        <<"Earthquake", "Information">>
    ELSE IF Contains(message, MARINE_MARKER) THEN
        IF Contains(message, DENSE_FOG_SUB)
        THEN <<"Marine", "Dense", "Fog", "Warning">>
        ELSE IF Contains(message, MARINE_WIND_SUB)
        THEN <<"Marine", "Wind", "Warning">>
        ELSE <<"Marine", "Other">>
    ELSE IF Contains(message, FLOOD_RISK_SUB)
    THEN <<"Flood", "Risk", "Information">>
    ELSE <<"Flood", "Other">>

\* The detail classifier with the sub-markers tested before the category
\* markers: a sub-marker decides the label in whatever category it stands.
disaster_detail_en_subs_first(message) ==
    IF Contains(message, SEDIMENT_SUB)
    THEN <<"Sediment", "Disaster", "Warning">>
    ELSE IF Contains(message, HEAVY_RAIN_SUB)
    THEN <<"Heavy", "Rain", "Warning">>
    ELSE IF Contains(message, FLOOD_WARNING_SUB)
    THEN <<"Flood", "Warning">>
    ELSE IF Contains(message, DENSE_FOG_SUB)
    THEN <<"Marine", "Dense", "Fog", "Warning">>
    ELSE IF Contains(message, MARINE_WIND_SUB)
    THEN <<"Marine", "Wind", "Warning">>
    ELSE IF Contains(message, FLOOD_RISK_SUB)
    THEN <<"Flood", "Risk", "Information">>
    ELSE IF Contains(message, WEATHER_MARKER) THEN <<"Weather", "Other">>
    ELSE IF Contains(message, EARTHQUAKE_MARKER)
    THEN <<"Earthquake", "Information">>
    ELSE IF Contains(message, MARINE_MARKER) THEN <<"Marine", "Other">>
    ELSE IF Contains(message, FLOOD_MARKER) THEN <<"Flood", "Other">>
    ELSE <<"Other">>

\* filtered_analysis.analyze_disaster_details, the body of its loop.  A label
\* is the sequence of its words.
disaster_detail_en(message) ==
    IF Contains(message, WEATHER_MARKER) THEN
        IF Contains(message, SEDIMENT_SUB)
        THEN <<"Sediment", "Disaster", "Warning">>
        ELSE IF Contains(message, HEAVY_RAIN_SUB)
        THEN <<"Heavy", "Rain", "Warning">>
        ELSE IF Contains(message, FLOOD_WARNING_SUB)
        THEN <<"Flood", "Warning">>
        ELSE <<"Weather", "Other">>
    ELSE IF Contains(message, EARTHQUAKE_MARKER) THEN
        <<"Earthquake", "Information">>
    ELSE IF Contains(message, MARINE_MARKER) THEN
        IF Contains(message, DENSE_FOG_SUB)
        THEN <<"Marine", "Dense", "Fog", "Warning">>
        ELSE IF Contains(message, MARINE_WIND_SUB)
        THEN <<"Marine", "Wind", "Warning">>
        ELSE <<"Marine", "Other">>
    ELSE IF Contains(message, FLOOD_MARKER) THEN
        IF Contains(message, FLOOD_RISK_SUB)
        THEN <<"Flood", "Risk", "Information">>
        ELSE <<"Flood", "Other">>
    ELSE <<"Other">>

\* The detail classifier of detailed_analysis with the heavy-rain sub-marker
\* tested before the landslide sub-marker.
disaster_detail_ja_heavy_rain_first(message) ==
    IF Contains(message, WEATHER_MARKER) THEN
        IF Contains(message, HEAVY_RAIN_SUB)
        THEN <<"OAME", "KEIHO">>
        ELSE IF Contains(message, SEDIMENT_SUB)
        THEN <<"DOSHA", "SAIGAI", "KEIKAI", "JOHO">>
        ELSE IF Contains(message, FLOOD_WARNING_SUB)
        THEN <<"KOZUI", "KEIHO">>
        ELSE <<"KISHO", "SONOTA">>
    ELSE IF Contains(message, EARTHQUAKE_MARKER) THEN
        <<"JISHIN", "JOHO">>
    ELSE IF Contains(message, MARINE_MARKER) THEN
        IF Contains(message, DENSE_FOG_SUB)
        THEN <<"KAIJO", "NOMU", "KEIHO">>
        ELSE IF Contains(message, MARINE_WIND_SUB)
        THEN <<"KAIJO", "KAZE", "KEIHO">>
        ELSE <<"KAIJO", "SONOTA">>
    ELSE IF Contains(message, FLOOD_MARKER) THEN
        IF Contains(message, FLOOD_RISK_SUB)
        THEN <<"HANRAN", "KEIKAI", "JOHO">>
        ELSE <<"KOZUI", "SONOTA">>
    ELSE <<"SONOTA">>

\* detailed_analysis.analyze_message_content, the body of its loop.  The
\* labels are the Japanese sub-marker texts, as sequences of their words.
disaster_detail_ja(message) ==
    IF Contains(message, WEATHER_MARKER) THEN
        IF Contains(message, SEDIMENT_SUB)
        THEN <<"DOSHA", "SAIGAI", "KEIKAI", "JOHO">>
        ELSE IF Contains(message, HEAVY_RAIN_SUB)
        THEN <<"OAME", "KEIHO">>
        ELSE IF Contains(message, FLOOD_WARNING_SUB)
        THEN <<"KOZUI", "KEIHO">>
        ELSE <<"KISHO", "SONOTA">>
    ELSE IF Contains(message, EARTHQUAKE_MARKER) THEN
        <<"JISHIN", "JOHO">>
    ELSE IF Contains(message, MARINE_MARKER) THEN
        IF Contains(message, DENSE_FOG_SUB)
        THEN <<"KAIJO", "NOMU", "KEIHO">>
        ELSE IF Contains(message, MARINE_WIND_SUB)
        THEN <<"KAIJO", "KAZE", "KEIHO">>
        ELSE <<"KAIJO", "SONOTA">>
    ELSE IF Contains(message, FLOOD_MARKER) THEN
        IF Contains(message, FLOOD_RISK_SUB)
        THEN <<"HANRAN", "KEIKAI", "JOHO">>
        ELSE <<"KOZUI", "SONOTA">>
    ELSE <<"SONOTA">>

\* filtered_analysis.create_visualizations: the disaster type recalculated
\* from the detail label.
create_visualizations_type(detail) ==
    IF Contains(detail, "Marine") THEN "Marine"
    ELSE IF Contains(detail, "Weather") \/ Contains(detail, "Sediment")
    THEN "Weather"
    ELSE IF Contains(detail, "Earthquake") THEN "Earthquake"
    ELSE IF Contains(detail, "Flood") THEN "Flood"
    ELSE "Other"

\* filtered_analysis.generate_summary_report: the same recalculation.
generate_summary_report_type(detail) ==
    IF Contains(detail, "Marine") THEN "Marine"
    ELSE IF Contains(detail, "Weather") \/ Contains(detail, "Sediment")
    THEN "Weather"
    ELSE IF Contains(detail, "Earthquake") THEN "Earthquake"
    ELSE IF Contains(detail, "Flood") THEN "Flood"
    ELSE "Other"

\* detailed_analysis.generate_detailed_report: the recalculation on the
\* Japanese labels.
generate_detailed_report_type(detail) ==
    IF Contains(detail, "KAIJO") THEN "KAIJO"
    ELSE IF Contains(detail, "KISHO") \/ Contains(detail, "DOSHA")
    THEN "KISHO"
    ELSE IF Contains(detail, "JISHIN") THEN "JISHIN"
    ELSE IF Contains(detail, "KOZUI") \/ Contains(detail, "HANRAN")
    THEN "KOZUI"
    ELSE "SONOTA"

---------------------------------------------------------------------------
(* pandas operations on columns and series *)

DC_REPORT == <<"DC Report">>

DCX == <<"DCX">>

\* Series.value_counts(): the count of every value that occurs.  The order
\* (descending count) is not part of the value; see ArgMax.
value_counts(column) ==
    [v \in Range(column) |->
        Cardinality({k \in 1..Len(column) : column[k] = v})]

\* The candidates for series.index[0] after value_counts().
ArgMax(series) ==
    {v \in DOMAIN series : \A w \in DOMAIN series : series[w] <= series[v]}

\* len(df[df['report_type'] == t])
CountType(frame, t) ==
    Cardinality({k \in 1..Len(frame) : frame[k].report_type = t})

\* The sum of the counts of a series.
RECURSIVE SumOver(_, _)
SumOver(series, keys) ==
    IF keys = {} THEN 0
    ELSE LET v == CHOOSE w \in keys : TRUE
         IN series[v] + SumOver(series, keys \ {v})

Total(series) == SumOver(series, DOMAIN series)

\* Series.sort_index() of a series indexed by numbers: the (index, value)
\* pairs in ascending order of the index.
RECURSIVE sort_index_from(_, _)
sort_index_from(series, keys) ==
    IF keys = {} THEN <<>>
    ELSE LET lo == CHOOSE v \in keys : \A w \in keys : v <= w
         IN <<<<lo, series[lo]>>>> \o sort_index_from(series, keys \ {lo})

sort_index(series) == sort_index_from(series, DOMAIN series)

EmptySeries == [v \in {} |-> 0]

\* Every row selected, whatever its report type.
SelectAllReports(frame) == frame

\* df[df['report_type'] == 'DC Report']
SelectDCReports(frame) ==
    SelectSeq(frame, LAMBDA r : r.report_type = DC_REPORT)

\* f"{count/total*100:.1f}": the percentage in tenths of a percent, rounded
\* to the nearest tenth, a tie to the even tenth.  (A tie needs a total that
\* is a multiple of 16.)
percent(count, total) ==
    LET q == (count * 1000) \div total
        r == (count * 1000) % total
    IN IF 2 * r > total THEN q + 1
       ELSE IF 2 * r < total THEN q
       ELSE IF q % 2 = 0 THEN q ELSE q + 1

\* The percentages written by a loop over the items of a series.  A loop
\* over an empty series divides nothing.
percentages(series, total) ==
    [v \in DOMAIN series |-> percent(series[v], total)]

---------------------------------------------------------------------------
(* The initial state: the file has been read, nothing is parsed yet *)

NoCharts == [saved |-> {}]

NoReport == [sections |-> {}]

NoCls == [done |-> FALSE]

NoPrinted == [functions |-> {}]

Init ==
    /\ script \in Scripts
    /\ lines \in Inputs
    /\ pc = "load"
    /\ i = 1
    /\ objs = <<>>
    /\ data = <<>>
    /\ current_record = 0
    /\ df = <<>>
    /\ dc_reports = <<>>
    /\ dc_reports_detailed = <<>>
    /\ hourly_counts = <<>>
    /\ hourly_df = <<>>
    /\ charts = NoCharts
    /\ report = NoReport
    /\ printed = NoPrinted
    /\ msg = <<>>
    /\ cls = NoCls

\* The function main() calls after the load function.
AfterLoad ==
    CASE script = "analyze_dc_reports" -> "analyze_basic_statistics"
      [] script = "filtered_analysis" -> "analyze_basic_statistics"
      [] script = "detailed_analysis" -> "analyze_message_content"
      [] script = "hourly_trend_analysis" -> "create_hourly_trend_visualization"

---------------------------------------------------------------------------
(* The load function: one action for each path through the body of the   *)
(* loop over the lines, one for the statements after the loop            *)

\* The blank line that ends the open record: the record is appended to data
\* and no record is open after it.
SkipBlankLineClosesRecord ==
    /\ pc = "load"
    /\ i <= Len(lines)
    /\ strip(lines[i]) = <<>>
    /\ i' = i + 1
    /\ data' = IF current_record # 0
               THEN Append(data, current_record)
               ELSE data
    /\ current_record' = 0
    /\ UNCHANGED <<script, lines, pc, objs, df, dc_reports,
                   dc_reports_detailed, hourly_counts, hourly_df, charts,
                   report, printed, msg, cls>>

\* `if not line: continue`
SkipBlankLine ==
    /\ pc = "load"
    /\ i <= Len(lines)
    /\ strip(lines[i]) = <<>>
    /\ i' = i + 1
    /\ UNCHANGED <<script, lines, pc, objs, data, current_record, df,
                   dc_reports, dc_reports_detailed, hourly_counts, hourly_df,
                   charts, report,
                   printed, msg, cls>>

\* The dict built from the 5 parts of a record-start line.
NewRecord(parts) ==
    [timestamp |-> parts[1], report_type |-> parts[2],
     satellite |-> parts[3], priority |-> parts[4], message |-> parts[5]]

\* The record-start line that drops the open record, without appending it,
\* when the line has fewer than 5 parts.
RecordStartLineDropsOpen ==
    /\ pc = "load"
    /\ i <= Len(lines)
    /\ LET line == strip(lines[i])
           parts == split(line, COMMA, 4)
       IN /\ line # <<>>
          /\ startswith(line, YEAR_PREFIX)
          /\ IF Len(parts) >= 5
             THEN /\ data' = IF current_record # 0
                             THEN Append(data, current_record)
                             ELSE data
                  /\ objs' = Append(objs, NewRecord(parts))
                  /\ current_record' = Len(objs) + 1
             ELSE /\ current_record' = 0
                  /\ UNCHANGED <<objs, data>>
    /\ i' = i + 1
    /\ UNCHANGED <<script, lines, pc, df, dc_reports, dc_reports_detailed,
                   hourly_counts, hourly_df, charts, report,
                   printed, msg, cls>>

\* The record-start line that puts the open record at the head of data.
RecordStartLinePrepends ==
    /\ pc = "load"
    /\ i <= Len(lines)
    /\ LET line == strip(lines[i])
           parts == split(line, COMMA, 4)
       IN /\ line # <<>>
          /\ startswith(line, YEAR_PREFIX)
          /\ data' = IF current_record # 0
                     THEN <<current_record>> \o data
                     ELSE data
          /\ IF Len(parts) >= 5
             THEN /\ objs' = Append(objs, NewRecord(parts))
                  /\ current_record' = Len(objs) + 1
             ELSE UNCHANGED <<objs, current_record>>
    /\ i' = i + 1
    /\ UNCHANGED <<script, lines, pc, df, dc_reports, dc_reports_detailed,
                   hourly_counts, hourly_df, charts, report, printed, msg,
                   cls>>

\* `if line.startswith('2025/'):` - the open record is appended to data; a
\* new dict becomes the open record only when the line has 5 parts.
RecordStartLine ==
    /\ pc = "load"
    /\ i <= Len(lines)
    /\ LET line == strip(lines[i])
           parts == split(line, COMMA, 4)
       IN /\ line # <<>>
          /\ startswith(line, YEAR_PREFIX)
          /\ data' = IF current_record # 0
                     THEN Append(data, current_record)
                     ELSE data
          /\ IF Len(parts) >= 5
             THEN /\ objs' = Append(objs, NewRecord(parts))
                  /\ current_record' = Len(objs) + 1
             ELSE UNCHANGED <<objs, current_record>>
    /\ i' = i + 1
    /\ UNCHANGED <<script, lines, pc, df, dc_reports, dc_reports_detailed,
                   hourly_counts, hourly_df, charts, report,
                   printed, msg, cls>>

\* The continuation line put before the message instead of after it.
AppendLineReversed(message, line) == line \o <<NL>> \o message

\* message += '\n' + line
AppendLine(message, line) == message \o <<NL>> \o line

\* The continuation line that opens a record of its own when none is open.
ContinuationLineOpensRecord ==
    /\ pc = "load"
    /\ i <= Len(lines)
    /\ LET line == strip(lines[i])
       IN /\ line # <<>>
          /\ ~startswith(line, YEAR_PREFIX)
          /\ IF current_record # 0
             THEN /\ objs' = [objs EXCEPT ![current_record].message =
                                              AppendLine(@, line)]
                  /\ current_record' = current_record
             ELSE /\ objs' = Append(objs, NewRecord(<<<<>>, <<>>, <<>>, <<>>,
                                                      line>>))
                  /\ current_record' = Len(objs) + 1
    /\ i' = i + 1
    /\ UNCHANGED <<script, lines, pc, data, df, dc_reports,
                   dc_reports_detailed, hourly_counts, hourly_df, charts,
                   report, printed, msg, cls>>

\* `else: if current_record: current_record['message'] += '\n' + line`
ContinuationLine ==
    /\ pc = "load"
    /\ i <= Len(lines)
    /\ LET line == strip(lines[i])
       IN /\ line # <<>>
          /\ ~startswith(line, YEAR_PREFIX)
          /\ objs' = IF current_record # 0
                     THEN [objs EXCEPT ![current_record].message =
                                           AppendLine(@, line)]
                     ELSE objs
    /\ i' = i + 1
    /\ UNCHANGED <<script, lines, pc, data, current_record, df, dc_reports,
                   dc_reports_detailed, hourly_counts, hourly_df, charts,
                   report, printed, msg, cls>>

\* The loop over the lines as a function of the lines: the state of the
\* parser (the dicts created, the list data, the open record) before the
\* first line, ...
NoRecords == [objs |-> <<>>, data |-> <<>>, current_record |-> 0]

\* line.strip() and line.split(',', 4) of a line ...
StripAndSplit(raw) ==
    [line |-> strip(raw), parts |-> split(strip(raw), COMMA, 4)]

\* ... computed once for the lines of LinePool.
PoolStripAndSplit == [raw \in LinePool |-> StripAndSplit(raw)]

StrippedAndSplit(raw) ==
    IF raw \in LinePool THEN PoolStripAndSplit[raw] ELSE StripAndSplit(raw)

\* ... after one more line, ...
LoopBody(st, raw) ==
    LET line == StrippedAndSplit(raw).line
        parts == StrippedAndSplit(raw).parts
        pushed == IF st.current_record # 0
                  THEN Append(st.data, st.current_record)
                  ELSE st.data
    IN IF line = <<>> THEN st
       ELSE IF startswith(line, YEAR_PREFIX)
       THEN IF Len(parts) >= 5
            THEN [objs |-> Append(st.objs, NewRecord(parts)),
                  data |-> pushed,
                  current_record |-> Len(st.objs) + 1]
            ELSE [st EXCEPT !.data = pushed]
       ELSE IF st.current_record # 0
       THEN [st EXCEPT !.objs[st.current_record].message =
                           AppendLine(@, line)]
       ELSE st

\* ... after the first n lines, ...
RECURSIVE LoopOver(_, _)
LoopOver(ls, n) ==
    IF n = 0 THEN NoRecords ELSE LoopBody(LoopOver(ls, n - 1), ls[n])

\* ... and after the loop, with the open record appended.
ParsedRecords(ls) ==
    LET st == LoopOver(ls, Len(ls))
    IN [st EXCEPT !.data = IF st.current_record # 0
                           THEN Append(st.data, st.current_record)
                           ELSE st.data]

\* pd.DataFrame(data) with the timestamp column converted and the date and
\* hour columns added: every row is a copy of the dict its reference names.
Rows(refs, heap) ==
    [k \in 1..Len(refs) |->
        LET d == heap[refs[k]]
            ts == to_datetime(d.timestamp)
        IN [timestamp |-> ts, report_type |-> d.report_type,
            satellite |-> d.satellite, priority |-> d.priority,
            message |-> d.message, date |-> dt_date(ts),
            hour |-> dt_hour(ts)]]

\* The rows strictly after filter_date.
FilterRowsStrict(rows) ==
    SelectSeq(rows, LAMBDA r : r.timestamp > filter_date)

\* df[df['timestamp'] >= filter_date]
FilterRows(rows) == SelectSeq(rows, LAMBDA r : r.timestamp >= filter_date)

\* The load that drops the records whose timestamp does not match the
\* format and goes on with the others.
FinishLoadSkipBad ==
    /\ pc = "load"
    /\ i > Len(lines)
    /\ LET refs == IF current_record # 0
                   THEN Append(data, current_record)
                   ELSE data
           good == SelectSeq(refs,
                             LAMBDA r : matches_format(objs[r].timestamp))
       IN /\ data' = refs
          /\ IF good = <<>>
             THEN /\ pc' = "failed"
                  /\ df' = df
             ELSE /\ pc' = AfterLoad
                  /\ df' = IF script \in Filtering
                           THEN FilterRows(Rows(good, objs))
                           ELSE Rows(good, objs)
    /\ UNCHANGED <<script, lines, i, objs, current_record, dc_reports,
                   dc_reports_detailed, hourly_counts, hourly_df, charts,
                   report,
                   printed, msg, cls>>

\* After the loop: the open record is appended, the frame is built, the
\* timestamps are parsed (an empty frame has no timestamp column and one
\* timestamp that does not match the format fails the whole conversion),
\* and the filtering scripts keep the rows from filter_date on.
FinishLoad ==
    /\ pc = "load"
    /\ i > Len(lines)
    /\ LET refs == IF current_record # 0
                   THEN Append(data, current_record)
                   ELSE data
       IN /\ data' = refs
          /\ IF \/ refs = <<>>
                \/ \E k \in 1..Len(refs) :
                       ~matches_format(objs[refs[k]].timestamp)
             THEN /\ pc' = "failed"
                  /\ df' = df
             ELSE /\ pc' = AfterLoad
                  /\ df' = IF script \in Filtering
                           THEN FilterRows(Rows(refs, objs))
                           ELSE Rows(refs, objs)
    /\ UNCHANGED <<script, lines, i, objs, current_record, dc_reports,
                   dc_reports_detailed, hourly_counts, hourly_df, charts,
                   report, printed, msg, cls>>

---------------------------------------------------------------------------
(* The analyses of main(), one action for each function it calls *)

\* A row with one more column.
AddField(r, name, value) ==
    [f \in DOMAIN r \cup {name} |-> IF f = name THEN value ELSE r[f]]

\* analyze_disaster_types of analyze_dc_reports and of filtered_analysis:
\* the DC Report rows, each with its disaster_type.
ClassifyTypes(frame) ==
    LET sel == SelectDCReports(frame)
    IN [k \in 1..Len(sel) |->
           AddField(sel[k], "disaster_type",
                    IF script = "analyze_dc_reports"
                    THEN disaster_type_ja(sel[k].message)
                    ELSE disaster_type_en(sel[k].message))]

\* The counts and percentages analyze_basic_statistics prints.
BasicStatistics(frame) ==
    LET report_type_counts ==
            value_counts([k \in 1..Len(frame) |-> frame[k].report_type])
        satellite_counts ==
            value_counts([k \in 1..Len(frame) |-> frame[k].satellite])
        priority_counts ==
            value_counts([k \in 1..Len(frame) |-> frame[k].priority])
    IN [total_records |-> Len(frame),
        report_type_counts |-> report_type_counts,
        report_type_pct |-> percentages(report_type_counts, Len(frame)),
        satellite_counts |-> satellite_counts,
        satellite_pct |-> percentages(satellite_counts, Len(frame)),
        priority_counts |-> priority_counts,
        priority_pct |-> percentages(priority_counts, Len(frame))]

\* The record of what has been printed, with the output of one more
\* function.
Printed(function, values) ==
    [f \in DOMAIN printed \cup {function} |->
        IF f = "functions" THEN printed.functions \cup {function}
        ELSE IF f = function THEN values
        ELSE printed[f]]

analyze_basic_statistics ==
    /\ pc = "analyze_basic_statistics"
    /\ script \in {"analyze_dc_reports", "filtered_analysis"}
    /\ printed' = Printed("analyze_basic_statistics", BasicStatistics(df))
    /\ pc' = "analyze_disaster_types"
    /\ UNCHANGED <<script, lines, i, objs, data, current_record, df,
                   dc_reports, dc_reports_detailed, hourly_counts, hourly_df,
                   charts, report, msg, cls>>

\* The counts and percentages the classifying functions print: a Counter of
\* the labels, each count over the number of labels.
LabelStatistics(frame, field) ==
    LET counts == value_counts([k \in 1..Len(frame) |-> frame[k][field]])
    IN [counts |-> counts, pct |-> percentages(counts, Len(frame))]

analyze_disaster_types ==
    /\ pc = "analyze_disaster_types"
    /\ script \in {"analyze_dc_reports", "filtered_analysis"}
    /\ dc_reports' = ClassifyTypes(df)
    /\ printed' = Printed("analyze_disaster_types",
                          LabelStatistics(ClassifyTypes(df), "disaster_type"))
    /\ pc' = IF script = "filtered_analysis"
             THEN "analyze_disaster_details"
             ELSE "analyze_temporal_patterns"
    /\ UNCHANGED <<script, lines, i, objs, data, current_record, df,
                   dc_reports_detailed, hourly_counts, hourly_df, charts,
                   report, msg, cls>>

\* analyze_disaster_details of filtered_analysis and analyze_message_content
\* of detailed_analysis: the DC Report rows, each with its disaster_detail.
ClassifyDetails(frame) ==
    LET sel == SelectDCReports(frame)
    IN [k \in 1..Len(sel) |->
           AddField(sel[k], "disaster_detail",
                    IF script = "detailed_analysis"
                    THEN disaster_detail_ja(sel[k].message)
                    ELSE disaster_detail_en(sel[k].message))]

analyze_disaster_details ==
    /\ pc = "analyze_disaster_details"
    /\ script = "filtered_analysis"
    /\ dc_reports_detailed' = ClassifyDetails(df)
    /\ printed' = Printed("analyze_disaster_details",
                          LabelStatistics(ClassifyDetails(df),
                                          "disaster_detail"))
    /\ pc' = "analyze_temporal_patterns"
    /\ UNCHANGED <<script, lines, i, objs, data, current_record, df,
                   dc_reports, hourly_counts, hourly_df, charts, report,
                   msg, cls>>

analyze_message_content ==
    /\ pc = "analyze_message_content"
    /\ script = "detailed_analysis"
    /\ dc_reports_detailed' = ClassifyDetails(df)
    /\ printed' = Printed("analyze_message_content",
                          LabelStatistics(ClassifyDetails(df),
                                          "disaster_detail"))
    /\ pc' = "analyze_temporal_patterns_detailed"
    /\ UNCHANGED <<script, lines, i, objs, data, current_record, df,
                   dc_reports, hourly_counts, hourly_df, charts, report,
                   msg, cls>>

\* df.groupby([field, 'report_type']).size().unstack(fill_value=0): a row
\* for every value of the field that occurs, a column for every report type
\* that occurs, and in each cell the number of rows with both.
crosstab(frame, field) ==
    LET index == {frame[k][field] : k \in 1..Len(frame)}
        columns == {frame[k].report_type : k \in 1..Len(frame)}
    IN [index |-> index,
        columns |-> columns,
        cell |-> [v \in index |->
                     [t \in columns |->
                         Cardinality({k \in 1..Len(frame) :
                                         /\ frame[k][field] = v
                                         /\ frame[k].report_type = t})]]]

\* tab.loc[v, t] if t in tab.columns else 0
loc_or_zero(tab, v, t) == IF t \in tab.columns THEN tab.cell[v][t] ELSE 0

\* The three numbers printed for the row v of a cross-tabulation.
PrintedRow(tab, v) ==
    [dc_report |-> loc_or_zero(tab, v, DC_REPORT),
     dcx |-> loc_or_zero(tab, v, DCX),
     total |-> loc_or_zero(tab, v, DC_REPORT) + loc_or_zero(tab, v, DCX)]

\* for hour in range(24): if hour in index: ... if total > 0: print(...)
PrintedHours(tab) ==
    [h \in {v \in tab.index \cap (0..23) : PrintedRow(tab, v).total > 0} |->
        PrintedRow(tab, h)]

\* for v in index: ... print(...)
PrintedRows(tab) == [v \in tab.index |-> PrintedRow(tab, v)]

\* The cross-tabulations are returned to main(), which passes them to the
\* chart and report functions; these read their columns only, which are
\* the report types of df.
analyze_temporal_patterns_detailed ==
    /\ pc = "analyze_temporal_patterns_detailed"
    /\ script = "detailed_analysis"
    /\ printed' = Printed("analyze_temporal_patterns_detailed",
                          [hourly |-> PrintedHours(crosstab(df, "hour")),
                           daily |-> PrintedRows(crosstab(df, "date"))])
    /\ pc' = "analyze_satellite_performance"
    /\ UNCHANGED <<script, lines, i, objs, data, current_record, df,
                   dc_reports, dc_reports_detailed, hourly_counts, hourly_df,
                   charts, report, msg, cls>>

analyze_satellite_performance ==
    /\ pc = "analyze_satellite_performance"
    /\ script = "detailed_analysis"
    /\ printed' = Printed("analyze_satellite_performance",
                          [satellite |->
                               PrintedRows(crosstab(df, "satellite"))])
    /\ pc' = "create_detailed_visualizations"
    /\ UNCHANGED <<script, lines, i, objs, data, current_record, df,
                   dc_reports, dc_reports_detailed, hourly_counts, hourly_df,
                   charts, report, msg, cls>>

\* df['hour'].value_counts().sort_index()
HourlyCounts(frame) ==
    sort_index(value_counts([k \in 1..Len(frame) |-> frame[k].hour]))

analyze_temporal_patterns ==
    /\ pc = "analyze_temporal_patterns"
    /\ script \in {"analyze_dc_reports", "filtered_analysis"}
    /\ hourly_counts' = HourlyCounts(df)
    /\ pc' = "create_visualizations"
    /\ UNCHANGED <<script, lines, i, objs, data, current_record, df,
                   dc_reports, dc_reports_detailed, hourly_df, charts, report,
                   printed, msg, cls>>

---------------------------------------------------------------------------
(* Charts *)

\* The frame main() passes as dc_reports to the charts and the report.
PassedReports ==
    IF script = "analyze_dc_reports" THEN dc_reports ELSE dc_reports_detailed

\* The data of the disaster type pie chart, drawn when len(dc_reports) > 0:
\* analyze_dc_reports counts the disaster_type column, filtered_analysis
\* recalculates a type from the disaster_detail of every row.
DisasterPie ==
    IF script = "analyze_dc_reports"
    THEN value_counts([k \in 1..Len(dc_reports) |->
                          dc_reports[k].disaster_type])
    ELSE value_counts([k \in 1..Len(dc_reports_detailed) |->
             create_visualizations_type(
                 dc_reports_detailed[k].disaster_detail)])

DetailPie ==
    value_counts([k \in 1..Len(dc_reports_detailed) |->
                     dc_reports_detailed[k].disaster_detail])

\* 'DC Report' in hourly_pivot.columns and 'DCX' in hourly_pivot.columns
BothTypesOccur(frame) ==
    CountType(frame, DC_REPORT) > 0 /\ CountType(frame, DCX) > 0

create_visualizations ==
    /\ pc = "create_visualizations"
    /\ script \in {"analyze_dc_reports", "filtered_analysis"}
    /\ charts' =
         [saved |->
              IF script = "analyze_dc_reports"
              THEN {"dc_reports_analysis.png"}
                   \cup (IF Len(dc_reports) > 0
                         THEN {"disaster_types_analysis.png"} ELSE {})
              ELSE {"filtered_analysis_main.png"}
                   \cup (IF Len(dc_reports_detailed) > 0
                         THEN {"filtered_disaster_analysis.png"} ELSE {})
                   \cup (IF BothTypesOccur(df)
                         THEN {"filtered_hourly_heatmap.png"} ELSE {}),
          report_type_pie |->
              value_counts([k \in 1..Len(df) |-> df[k].report_type]),
          satellite_pie |->
              value_counts([k \in 1..Len(df) |-> df[k].satellite]),
          hourly_bar |-> hourly_counts,
          daily_line |->
              sort_index(value_counts([k \in 1..Len(df) |-> df[k].date])),
          disaster_pie |->
              IF Len(PassedReports) > 0 THEN DisasterPie ELSE EmptySeries,
          detail_pie |->
              IF script = "filtered_analysis" /\ Len(PassedReports) > 0
              THEN DetailPie ELSE EmptySeries]
    /\ pc' = "generate_summary_report"
    /\ UNCHANGED <<script, lines, i, objs, data, current_record, df,
                   dc_reports, dc_reports_detailed, hourly_counts, hourly_df,
                   report, printed, msg, cls>>

create_detailed_visualizations ==
    /\ pc = "create_detailed_visualizations"
    /\ script = "detailed_analysis"
    /\ charts' =
         [saved |-> {"detailed_analysis.png"}
                    \cup (IF BothTypesOccur(df)
                          THEN {"hourly_heatmap.png"} ELSE {}),
          detail_pie |->
              IF Len(dc_reports_detailed) > 0
              THEN DetailPie ELSE EmptySeries]
    /\ pc' = "generate_detailed_report"
    /\ UNCHANGED <<script, lines, i, objs, data, current_record, df,
                   dc_reports, dc_reports_detailed, hourly_counts, hourly_df,
                   report, printed, msg, cls>>

---------------------------------------------------------------------------
(* Reports *)

\* The type the report recalculates from a detail label.
RecalcType(detail) ==
    IF script = "detailed_analysis"
    THEN generate_detailed_report_type(detail)
    ELSE generate_summary_report_type(detail)

\* disaster_type_counts of generate_summary_report (filtered_analysis) and
\* generate_detailed_report: the loop runs over disaster_details.index, the
\* distinct detail labels, and pd.Series(disaster_types).value_counts()
\* counts its results.
RecalculatedTypeCounts(details) ==
    [t \in {RecalcType(d) : d \in DOMAIN details} |->
        Cardinality({d \in DOMAIN details : RecalcType(d) = t})]

\* The denominator of the disaster percentages with every record counted.
DisasterDenominatorAllRecords == Len(df)

\* len(dc_reports) in the report functions: the length of the frame main()
\* passes as dc_reports.
DisasterDenominator == Len(PassedReports)

\* The candidates for series.head(n).index after value_counts(): n labels,
\* or all when there are fewer, none with a smaller count than a label left
\* out.  The order among equal counts is not fixed.
head(series, n) ==
    {S \in SUBSET DOMAIN series :
        /\ Cardinality(S) = IF Cardinality(DOMAIN series) < n
                            THEN Cardinality(DOMAIN series) ELSE n
        /\ \A a \in S : \A b \in (DOMAIN series) \ S :
               series[a] >= series[b]}

\* The percentages of the two report types and of the satellites, over
\* total_records.
ReportTypePercentages ==
    [dc_report |-> percent(CountType(df, DC_REPORT), Len(df)),
     dcx |-> percent(CountType(df, DCX), Len(df))]

SatellitePercentages ==
    percentages(value_counts([k \in 1..Len(df) |-> df[k].satellite]),
                Len(df))

\* series.index[0] without the guard on the length: an empty series has no
\* first label.
FirstIndexUnguarded(series, none) == ArgMax(series)

\* series.index[0] if len(series) > 0 else none
FirstIndex(series, none) ==
    IF DOMAIN series = {} THEN {none} ELSE ArgMax(series)

\* generate_summary_report of analyze_dc_reports
SummaryReport(most_common) ==
    LET disaster_types ==
            IF Len(dc_reports) > 0
            THEN value_counts([k \in 1..Len(dc_reports) |->
                                  dc_reports[k].disaster_type])
            ELSE EmptySeries
    IN [sections |-> {"overview", "report_types", "satellites", "findings"}
                     \cup (IF DOMAIN disaster_types # {}
                           THEN {"disaster_types", "most_common"} ELSE {}),
        total_records |-> Len(df),
        dc_report_count |-> CountType(df, DC_REPORT),
        dcx_count |-> CountType(df, DCX),
        report_type_pct |-> ReportTypePercentages,
        satellite_pct |-> SatellitePercentages,
        disaster_type_counts |-> disaster_types,
        disaster_type_pct |-> percentages(disaster_types, DisasterDenominator),
        disaster_details |-> EmptySeries,
        disaster_denominator |-> DisasterDenominator,
        most_common_disaster |-> most_common,
        most_common_detail |-> "NASHI"]

\* generate_summary_report of filtered_analysis and generate_detailed_report
DetailedReport(most_common, most_common_detail, peak_hour, listed) ==
    LET disaster_details ==
            IF Len(dc_reports_detailed) > 0 THEN DetailPie ELSE EmptySeries
        disaster_type_counts == RecalculatedTypeCounts(disaster_details)
    IN [sections |-> {"overview", "report_types", "satellites", "temporal",
                      "findings"}
                     \cup (IF DOMAIN disaster_type_counts # {}
                           THEN {"disaster_types"} ELSE {})
                     \cup (IF DOMAIN disaster_details # {}
                           THEN {"disaster_details"} ELSE {}),
        total_records |-> Len(df),
        dc_report_count |-> CountType(df, DC_REPORT),
        dcx_count |-> CountType(df, DCX),
        report_type_pct |-> ReportTypePercentages,
        satellite_pct |-> SatellitePercentages,
        disaster_type_counts |-> disaster_type_counts,
        disaster_type_pct |->
            percentages(disaster_type_counts, DisasterDenominator),
        disaster_details |-> disaster_details,
        listed_details |-> [d \in listed |-> disaster_details[d]],
        listed_details_pct |->
            [d \in listed |->
                percent(disaster_details[d], DisasterDenominator)],
        disaster_denominator |-> DisasterDenominator,
        most_common_disaster |-> most_common,
        most_common_detail |-> most_common_detail,
        peak_hour |-> peak_hour]

generate_summary_report ==
    /\ pc = "generate_summary_report"
    /\ \/ /\ script = "analyze_dc_reports"
          /\ \E mc \in FirstIndex(SummaryReport("NASHI").disaster_type_counts,
                                  "NASHI") :
                 report' = SummaryReport(mc)
          /\ pc' = "write_report"
       \/ /\ script = "filtered_analysis"
          /\ df # <<>>
          /\ LET r == DetailedReport("None", <<"None">>, 0, {})
             IN \E mc \in FirstIndex(r.disaster_type_counts, "None"),
                   md \in FirstIndex(r.disaster_details, <<"None">>),
                   ph \in ArgMax(value_counts(
                                     [k \in 1..Len(df) |-> df[k].hour])),
                   top \in head(r.disaster_details, 10) :
                    /\ top # {} => md \in top
                    /\ report' = DetailedReport(mc, md, ph, top)
          /\ pc' = "write_report"
       \/ \* df['hour'].value_counts().index[0] of an empty frame
          /\ script = "filtered_analysis"
          /\ df = <<>>
          /\ pc' = "failed"
          /\ report' = report
    /\ UNCHANGED <<script, lines, i, objs, data, current_record, df,
                   dc_reports, dc_reports_detailed, hourly_counts, hourly_df,
                   charts, printed, msg, cls>>

generate_detailed_report ==
    /\ pc = "generate_detailed_report"
    /\ script = "detailed_analysis"
    /\ LET r == DetailedReport("NASHI", <<"NASHI">>, 0, {})
       IN \E mc \in FirstIndex(r.disaster_type_counts, "NASHI"),
             md \in FirstIndex(r.disaster_details, <<"NASHI">>),
             ph \in ArgMax(value_counts([k \in 1..Len(df) |-> df[k].hour])),
             top \in head(r.disaster_details, 10) :
              /\ top # {} => md \in top
              /\ report' = DetailedReport(mc, md, ph, top)
    /\ pc' = "write_report"
    /\ UNCHANGED <<script, lines, i, objs, data, current_record, df,
                   dc_reports, dc_reports_detailed, hourly_counts, hourly_df,
                   charts, printed, msg, cls>>

---------------------------------------------------------------------------
(* hourly_trend_analysis: the stages of main() after the load function *)

\* pd.to_datetime('2025-08-22 00:00:00') of create_hourly_trend_visualization
start_time == MkInstant(8, 22, 0, 0, 0)

\* df['timestamp'].max()
MaxTimestamp(frame) ==
    CHOOSE t \in {frame[k].timestamp : k \in 1..Len(frame)} :
        \A k \in 1..Len(frame) : frame[k].timestamp <= t

\* The range without an instant equal to its end.
RECURSIVE date_range_open(_, _)
date_range_open(start, end) ==
    IF start >= end THEN <<>>
    ELSE <<start>> \o date_range_open(start + 3600, end)

\* pd.date_range(start=start, end=end, freq='H'): start, start + 1 h, ...
\* up to the last instant that is not after end.
RECURSIVE date_range(_, _)
date_range(start, end) ==
    IF start > end THEN <<>>
    ELSE <<start>> \o date_range(start + 3600, end)

\* The body of the loop over hourly_intervals: the rows of one bucket
\* [hour_start, hour_start + 1 h) counted by report type.
HourRow(frame, hour_start) ==
    LET hour_end == hour_start + 3600
        hour_data == SelectSeq(frame, LAMBDA r : /\ r.timestamp >= hour_start
                                                 /\ r.timestamp < hour_end)
    IN [hour_start |-> hour_start,
        hour_end |-> hour_end,
        dc_report |-> CountType(hour_data, DC_REPORT),
        dcx |-> CountType(hour_data, DCX),
        total |-> Len(hour_data)]

\* pd.DataFrame(hourly_data)
HourlyData(frame) ==
    LET hourly_intervals == date_range(start_time, MaxTimestamp(frame))
    IN [n \in 1..Len(hourly_intervals) |->
           HourRow(frame, hourly_intervals[n])]

\* Series.cumsum() and Series.sum() of a column of hourly_df
RECURSIVE SumColumn(_, _, _)
SumColumn(frame, field, n) ==
    IF n = 0 THEN 0 ELSE SumColumn(frame, field, n - 1) + frame[n][field]

cumsum(frame, field) ==
    [n \in 1..Len(frame) |-> SumColumn(frame, field, n)]

\* The maximum of an empty frame is NaT and pd.date_range raises on it.
create_hourly_trend_visualization ==
    /\ pc = "create_hourly_trend_visualization"
    /\ script = "hourly_trend_analysis"
    /\ IF df = <<>>
       THEN /\ pc' = "failed"
            /\ UNCHANGED <<hourly_df, charts>>
       ELSE /\ hourly_df' = HourlyData(df)
            /\ charts' =
                 [saved |-> {"hourly_trend_analysis.png"},
                  hourly_bars |->
                      [n \in 1..Len(HourlyData(df)) |->
                          <<HourlyData(df)[n].dc_report,
                            HourlyData(df)[n].dcx>>],
                  total_cumulative |-> cumsum(HourlyData(df), "total")]
            /\ pc' = "create_enhanced_visualization"
    /\ UNCHANGED <<script, lines, i, objs, data, current_record, df,
                   dc_reports, dc_reports_detailed, hourly_counts, report,
                   printed, msg, cls>>

create_enhanced_visualization ==
    /\ pc = "create_enhanced_visualization"
    /\ script = "hourly_trend_analysis"
    /\ charts' = [charts EXCEPT
                     !.saved = @ \cup {"enhanced_hourly_analysis.png"}]
    /\ pc' = "generate_trend_report"
    /\ UNCHANGED <<script, lines, i, objs, data, current_record, df,
                   dc_reports, dc_reports_detailed, hourly_counts, hourly_df,
                   report,
                   printed, msg, cls>>

\* hourly_df.loc[hourly_df[field].idxmax()]: the first row with the maximum.
idxmax(frame, field) ==
    CHOOSE n \in 1..Len(frame) :
        /\ \A m \in 1..Len(frame) : frame[m][field] <= frame[n][field]
        /\ \A m \in 1..(n - 1) : frame[m][field] < frame[n][field]

TrendReport ==
    [sections |-> {"overview", "hourly_statistics", "peaks", "hourly_detail",
                   "findings"},
     hours |-> Len(hourly_df),
     total_dc_report |-> SumColumn(hourly_df, "dc_report", Len(hourly_df)),
     total_dcx |-> SumColumn(hourly_df, "dcx", Len(hourly_df)),
     total_reports |-> SumColumn(hourly_df, "total", Len(hourly_df)),
     peak_hour_dc |-> hourly_df[idxmax(hourly_df, "dc_report")].hour_start,
     peak_hour_dcx |-> hourly_df[idxmax(hourly_df, "dcx")].hour_start,
     peak_hour_total |-> hourly_df[idxmax(hourly_df, "total")].hour_start,
     hourly_detail |-> hourly_df]

generate_trend_report ==
    /\ pc = "generate_trend_report"
    /\ script = "hourly_trend_analysis"
    /\ report' = TrendReport
    /\ pc' = "write_report"
    /\ UNCHANGED <<script, lines, i, objs, data, current_record, df,
                   dc_reports, dc_reports_detailed, hourly_counts, hourly_df,
                   charts, printed, msg, cls>>

\* main(): the report is written to its file.
ReportFile ==
    CASE script = "analyze_dc_reports" -> "dc_reports_analysis_report.md"
      [] script = "filtered_analysis" -> "filtered_analysis_report.md"
      [] script = "detailed_analysis" -> "detailed_analysis_report.md"
      [] script = "hourly_trend_analysis" -> "hourly_trend_report.md"

write_report ==
    /\ pc = "write_report"
    /\ report' = AddField(report, "file", ReportFile)
    /\ pc' = "done"
    /\ UNCHANGED <<script, lines, i, objs, data, current_record, df,
                   dc_reports, dc_reports_detailed, hourly_counts, hourly_df,
                   charts, printed, msg, cls>>

Next ==
    \/ SkipBlankLine
    \/ RecordStartLine
    \/ ContinuationLine
    \/ FinishLoad
    \/ analyze_basic_statistics
    \/ analyze_disaster_types
    \/ analyze_disaster_details
    \/ analyze_message_content
    \/ analyze_temporal_patterns_detailed
    \/ analyze_satellite_performance
    \/ analyze_temporal_patterns
    \/ create_visualizations
    \/ create_detailed_visualizations
    \/ generate_summary_report
    \/ generate_detailed_report
    \/ create_hourly_trend_visualization
    \/ create_enhanced_visualization
    \/ generate_trend_report
    \/ write_report

Spec == Init /\ [][Next]_vars

---------------------------------------------------------------------------
(* The classifiers on their own: every message over the marker tokens *)

MessageTokens ==
    {WEATHER_MARKER, EARTHQUAKE_MARKER, MARINE_MARKER, FLOOD_MARKER,
     SEDIMENT_SUB, HEAVY_RAIN_SUB, FLOOD_WARNING_SUB, DENSE_FOG_SUB,
     MARINE_WIND_SUB, FLOOD_RISK_SUB, "text", NL}

Messages == UNION {[1..n -> MessageTokens] : n \in 0..MaxMsgTokens}

InitClassify ==
    /\ msg \in Messages
    /\ cls = NoCls
    /\ script = "none"
    /\ lines = <<>>
    /\ pc = "classify"
    /\ i = 1
    /\ objs = <<>>
    /\ data = <<>>
    /\ current_record = 0
    /\ df = <<>>
    /\ dc_reports = <<>>
    /\ dc_reports_detailed = <<>>
    /\ hourly_counts = <<>>
    /\ hourly_df = <<>>
    /\ charts = NoCharts
    /\ report = NoReport
    /\ printed = NoPrinted

\* Every classifier of the scripts applied to msg, and every recalculation
\* applied to the detail label of msg.
ClassifyMessage ==
    /\ pc = "classify"
    /\ ~cls.done
    /\ cls' = [done |-> TRUE,
               type_ja |-> disaster_type_ja(msg),
               type_en |-> disaster_type_en(msg),
               detail_en |-> disaster_detail_en(msg),
               detail_ja |-> disaster_detail_ja(msg),
               chart_type |->
                   create_visualizations_type(disaster_detail_en(msg)),
               summary_type |->
                   generate_summary_report_type(disaster_detail_en(msg)),
               detailed_type |->
                   generate_detailed_report_type(disaster_detail_ja(msg))]
    /\ UNCHANGED <<msg, pipelineVars>>

NextClassify == ClassifyMessage

SpecClassify == InitClassify /\ [][NextClassify]_vars

---------------------------------------------------------------------------
(* The filtered and the detailed report on inputs with many detail labels: *)
(* DC Report records only, one line each, for every set of the labels the  *)
(* detail classifier has                                                   *)

\* A message for each of the 11 labels of the detail classifier.
DetailMessages ==
    << <<WEATHER_MARKER, SEDIMENT_SUB>>,
       <<WEATHER_MARKER, HEAVY_RAIN_SUB>>,
       <<WEATHER_MARKER, FLOOD_WARNING_SUB>>,
       <<WEATHER_MARKER, "text">>,
       <<EARTHQUAKE_MARKER, "text">>,
       <<MARINE_MARKER, DENSE_FOG_SUB>>,
       <<MARINE_MARKER, MARINE_WIND_SUB>>,
       <<MARINE_MARKER, "text">>,
       <<FLOOD_MARKER, FLOOD_RISK_SUB>>,
       <<FLOOD_MARKER, "text">>,
       <<"text">> >>

DetailLine(n) ==
    RecordLine(TS("08", "22", "06", "00", "00"), "DC Report", "QZSS-7", "1",
               DetailMessages[n])

\* The lines of the labels in S from label n on, in the order of the labels.
RECURSIVE DetailLinesFrom(_, _)
DetailLinesFrom(S, n) ==
    IF n > Len(DetailMessages) THEN <<>>
    ELSE (IF n \in S THEN <<DetailLine(n)>> ELSE <<>>)
         \o DetailLinesFrom(S, n + 1)

\* One line for every label in S, the line of the first label r times.
DetailInput(S, r) ==
    IF S = {} THEN <<>>
    ELSE LET first == CHOOSE n \in S : \A m \in S : n <= m
         IN [k \in 1..(r - 1) |-> DetailLine(first)]
            \o DetailLinesFrom(S, 1)

DetailInputs ==
    {DetailInput(S, r) : S \in SUBSET (1..Len(DetailMessages)),
                         r \in 1..MaxRepeat}

InitReport ==
    /\ script \in {"filtered_analysis", "detailed_analysis"}
    /\ lines \in DetailInputs
    /\ pc = "load"
    /\ i = 1
    /\ objs = <<>>
    /\ data = <<>>
    /\ current_record = 0
    /\ df = <<>>
    /\ dc_reports = <<>>
    /\ dc_reports_detailed = <<>>
    /\ hourly_counts = <<>>
    /\ hourly_df = <<>>
    /\ charts = NoCharts
    /\ report = NoReport
    /\ printed = NoPrinted
    /\ msg = <<>>
    /\ cls = NoCls

\* The steps of the two scripts on these inputs, which hold no blank line
\* and no continuation line.
NextReport ==
    \/ RecordStartLine
    \/ FinishLoad
    \/ analyze_basic_statistics
    \/ analyze_disaster_types
    \/ analyze_disaster_details
    \/ analyze_message_content
    \/ analyze_temporal_patterns_detailed
    \/ analyze_satellite_performance
    \/ analyze_temporal_patterns
    \/ create_visualizations
    \/ create_detailed_visualizations
    \/ generate_summary_report
    \/ generate_detailed_report
    \/ write_report

SpecReport == InitReport /\ [][NextReport]_vars

---------------------------------------------------------------------------
(* detailed_analysis up to its cross-tabulations, on inputs that also hold *)
(* records whose report type is neither DC Report nor DCX                  *)

\* A record of another report type in an hour and from a satellite that
\* other records have too.
LineOtherType ==
    RecordLine(TS("08", "22", "06", "00", "10"), "DCY", "QZSS-3", "2",
               <<"Test message">>)

\* A record of another report type, alone in its hour, on its date and from
\* its satellite.
LineOtherTypeAlone ==
    RecordLine(TS("08", "23", "07", "00", "00"), "DCY", "QZSS-2", "2",
               <<"Test message">>)

CrossTabPool ==
    {LineBeforeCutoff, LineAtCutoff, LineFloodWarning, LineDCX,
     LineOtherType, LineOtherTypeAlone}

CrossTabInputs == UNION {[1..n -> CrossTabPool] : n \in 0..MaxLines}

InitCrossTab ==
    /\ script = "detailed_analysis"
    /\ lines \in CrossTabInputs
    /\ pc = "load"
    /\ i = 1
    /\ objs = <<>>
    /\ data = <<>>
    /\ current_record = 0
    /\ df = <<>>
    /\ dc_reports = <<>>
    /\ dc_reports_detailed = <<>>
    /\ hourly_counts = <<>>
    /\ hourly_df = <<>>
    /\ charts = NoCharts
    /\ report = NoReport
    /\ printed = NoPrinted
    /\ msg = <<>>
    /\ cls = NoCls

NextCrossTab ==
    \/ RecordStartLine
    \/ FinishLoad
    \/ analyze_message_content
    \/ analyze_temporal_patterns_detailed
    \/ analyze_satellite_performance

SpecCrossTab == InitCrossTab /\ [][NextCrossTab]_vars

---------------------------------------------------------------------------
(* Properties of the record parser *)

\* A line that is not blank and begins, after trimming, with the
\* record-start signature.
HasStartSignature(l) ==
    LET t == strip(l) IN t # <<>> /\ Head(t) = YEAR_PREFIX

\* The number of commas of a line.
Commas(l) == Cardinality({k \in 1..Len(l) : l[k] = COMMA})

\* A record-start line with at least 5 comma-separated fields.
ValidStart(l) == HasStartSignature(l) /\ Commas(l) >= 4

\* A record-start line with fewer than 5 comma-separated fields.
MalformedStart(l) == HasStartSignature(l) /\ Commas(l) < 4

IsBlank(l) == \A k \in 1..Len(l) : l[k] \in {WS, NL}

\* The fifth field of a valid record-start line: what follows its 4th comma,
\* without the blanks and the newline that end the line.
RECURSIVE AfterCommas(_, _)
AfterCommas(l, n) ==
    IF n = 0 THEN l
    ELSE IF Head(l) = COMMA THEN AfterCommas(Tail(l), n - 1)
    ELSE AfterCommas(Tail(l), n)

RECURSIVE DropTrailingSpace(_)
DropTrailingSpace(l) ==
    IF l # <<>> /\ l[Len(l)] \in {WS, NL}
    THEN DropTrailingSpace(SubSeq(l, 1, Len(l) - 1))
    ELSE l

RECURSIVE DropLeadingSpace(_)
DropLeadingSpace(l) ==
    IF l # <<>> /\ Head(l) \in {WS, NL} THEN DropLeadingSpace(Tail(l)) ELSE l

Trimmed(l) == DropTrailingSpace(DropLeadingSpace(l))

FifthField(l) == DropTrailingSpace(AfterCommas(l, 4))

\* The tokens of a line before its first comma.
RECURSIVE BeforeComma(_)
BeforeComma(l) ==
    IF l = <<>> \/ Head(l) = COMMA THEN <<>>
    ELSE <<Head(l)>> \o BeforeComma(Tail(l))

\* The n-th of the first four comma-separated segments of a valid
\* record-start line.
Segment(l, n) == BeforeComma(AfterCommas(DropLeadingSpace(l), n - 1))

\* What the definitions above say of a line.
LineFacts(l) ==
    [blank |-> IsBlank(l),
     signature |-> HasStartSignature(l),
     valid |-> ValidStart(l),
     malformed |-> MalformedStart(l),
     commas |-> Commas(l),
     trimmed |-> Trimmed(l),
     segment |-> [n \in 1..4 |->
                     IF ValidStart(l) THEN Segment(l, n) ELSE <<>>],
     fifth |-> IF ValidStart(l) THEN FifthField(l) ELSE <<>>]

\* LineFacts of the lines of LinePool, computed once.
PoolFacts == [l \in LinePool |-> LineFacts(l)]

FactsOf(l) == IF l \in LinePool THEN PoolFacts[l] ELSE LineFacts(l)

ValidStartsUpTo(n) == {k \in 1..n : FactsOf(lines[k]).valid}

\* C1: the number of records the parser returns equals the number of
\* non-blank lines that begin with the record-start signature and have at
\* least 5 comma-separated fields, for every input, also one that holds
\* record-start lines with fewer than 5 fields.
C1_RecordCountEqualsValidStarts ==
    pc # "load" => Len(data) = Cardinality(ValidStartsUpTo(Len(lines)))

\* C2: once a record-start line with fewer than 5 fields has been processed
\* no record is open, so the lines after it are not appended to the earlier
\* record, and the message of a record that has been pushed to the output
\* never changes.
C2_MalformedStartClosesRecord ==
    [][/\ (pc = "load" /\ i <= Len(lines) /\ MalformedStart(lines[i]))
              => current_record' = 0
       /\ \A k \in 1..Len(data) :
              objs'[data[k]].message = objs[data[k]].message]_vars

\* The message of the record started by line k when the lines up to line n
\* have been read: the fifth field, then every non-blank line k+1..n,
\* trimmed, each after one newline.
RECURSIVE ExpectedMessage(_, _)
ExpectedMessage(k, n) ==
    IF n <= k THEN FactsOf(lines[k]).fifth
    ELSE IF FactsOf(lines[n]).blank THEN ExpectedMessage(k, n - 1)
    ELSE ExpectedMessage(k, n - 1) \o <<NL>> \o FactsOf(lines[n]).trimmed

\* The first line after line k that has the record-start signature,
\* Len(lines) + 1 when there is none.
NextStart(k) ==
    LET later == {m \in (k + 1)..Len(lines) : FactsOf(lines[m]).signature}
    IN IF later = {} THEN Len(lines) + 1
       ELSE CHOOSE m \in later : \A o \in later : m <= o

Min(a, b) == IF a <= b THEN a ELSE b

\* C3: a valid record-start line followed by N continuation lines with no
\* start line among them gives a record whose message is the fifth field
\* followed by every trimmed continuation line in the original order, each
\* after exactly one newline.  This holds while the continuation lines are
\* being read, and from then on when the block ends at the end of the input
\* or at a valid record-start line.
C3_ContinuationMerging ==
    \A k \in ValidStartsUpTo(i - 1) :
        LET e == NextStart(k)
            rec == Cardinality(ValidStartsUpTo(k))
        IN (i - 1 < e \/ e > Len(lines) \/ FactsOf(lines[e]).valid)
           => objs[rec].message = ExpectedMessage(k, Min(i - 1, e - 1))

\* A record whose start line was followed by a blank line and by a
\* continuation line has been read to the end.
C3_Witness ==
    /\ pc # "load"
    /\ Len(lines) = 3
    /\ ValidStart(lines[1])
    /\ IsBlank(lines[2])
    /\ lines[3] = LineContinuation
    /\ objs[1].message =
           FifthField(lines[1]) \o <<NL, "continuation of test">>

---------------------------------------------------------------------------
(* Properties of the classifiers *)

CategoryMarkers ==
    <<WEATHER_MARKER, EARTHQUAKE_MARKER, MARINE_MARKER, FLOOD_MARKER>>

\* The position, in the order weather, earthquake, marine, flood, of the
\* first category whose marker the message holds; 5 when it holds none.
FirstCategory(message) ==
    LET held == {c \in 1..4 : \E k \in 1..Len(message) :
                                  message[k] = CategoryMarkers[c]}
    IN IF held = {} THEN 5 ELSE CHOOSE c \in held : \A d \in held : c <= d

TypesEn == <<"Weather", "Earthquake", "Marine", "Flood", "Other">>

TypesJa == <<"KISHO", "JISHIN", "KAIJO", "KOZUI", "SONOTA">>

\* The detail labels of each category, in the order of TypesEn.
DetailsEn ==
    << {<<"Sediment", "Disaster", "Warning">>, <<"Heavy", "Rain", "Warning">>,
        <<"Flood", "Warning">>, <<"Weather", "Other">>},
       {<<"Earthquake", "Information">>},
       {<<"Marine", "Dense", "Fog", "Warning">>,
        <<"Marine", "Wind", "Warning">>, <<"Marine", "Other">>},
       {<<"Flood", "Risk", "Information">>, <<"Flood", "Other">>},
       {<<"Other">>} >>

DetailsJa ==
    << {<<"DOSHA", "SAIGAI", "KEIKAI", "JOHO">>, <<"OAME", "KEIHO">>,
        <<"KOZUI", "KEIHO">>, <<"KISHO", "SONOTA">>},
       {<<"JISHIN", "JOHO">>},
       {<<"KAIJO", "NOMU", "KEIHO">>, <<"KAIJO", "KAZE", "KEIHO">>,
        <<"KAIJO", "SONOTA">>},
       {<<"HANRAN", "KEIKAI", "JOHO">>, <<"KOZUI", "SONOTA">>},
       {<<"SONOTA">>} >>

\* C4: for every message, the disaster type recalculated from the detail
\* label (for the chart and the report of filtered_analysis and for the
\* report of detailed_analysis) is the type the direct classification of
\* the message gives.
C4_RecalculatedTypeIsDirectType ==
    cls.done =>
        /\ cls.chart_type = cls.type_en
        /\ cls.summary_type = cls.type_en
        /\ cls.detailed_type = cls.type_ja

\* C7: every message gets exactly one type of the five and exactly one
\* detail label of the classifier's labels, and a message with none of the
\* four category markers gets (Other, Other).
C7_ClassificationTotal ==
    cls.done =>
        /\ \E c \in 1..5 : cls.type_en = TypesEn[c]
        /\ \E c \in 1..5 : cls.type_ja = TypesJa[c]
        /\ \E c \in 1..5 : cls.detail_en \in DetailsEn[c]
        /\ \E c \in 1..5 : cls.detail_ja \in DetailsJa[c]
        /\ FirstCategory(msg) = 5 =>
               /\ cls.type_en = "Other" /\ cls.detail_en = <<"Other">>
               /\ cls.type_ja = "SONOTA" /\ cls.detail_ja = <<"SONOTA">>

\* A message that holds sub-markers and no category marker has been
\* classified.
C7_Witness ==
    /\ cls.done
    /\ FirstCategory(msg) = 5
    /\ \E k \in 1..Len(msg) : msg[k] = FLOOD_RISK_SUB
    /\ cls.type_en = "Other"
    /\ cls.detail_en = <<"Other">>

\* C8: in every script the category of a message is the first, in the order
\* weather, earthquake, marine, flood, whose marker the message holds, and
\* other when it holds none.
C8_FirstMatchWins ==
    cls.done =>
        LET c == FirstCategory(msg)
        IN /\ cls.type_ja = TypesJa[c]
           /\ cls.type_en = TypesEn[c]
           /\ cls.detail_en \in DetailsEn[c]
           /\ cls.detail_ja \in DetailsJa[c]

\* A message with the flood, the earthquake and the weather marker, in this
\* order, has been classified as weather.
C8_Witness ==
    /\ cls.done
    /\ msg = <<FLOOD_MARKER, EARTHQUAKE_MARKER, WEATHER_MARKER>>
    /\ cls.type_en = "Weather"
    /\ cls.type_ja = "KISHO"

---------------------------------------------------------------------------
(* Properties of the aggregates *)

\* The statements of main() after a function has returned.
AfterTypes ==
    {"analyze_disaster_details", "analyze_temporal_patterns",
     "create_visualizations", "generate_summary_report", "write_report",
     "done"}

AfterDetails ==
    {"analyze_temporal_patterns", "analyze_temporal_patterns_detailed",
     "analyze_satellite_performance", "create_visualizations",
     "create_detailed_visualizations", "generate_summary_report",
     "generate_detailed_report", "write_report", "done"}

AfterTemporal ==
    {"create_visualizations", "generate_summary_report", "write_report",
     "done"}

AfterReport == {"write_report", "done"}

TypesDone ==
    script \in {"analyze_dc_reports", "filtered_analysis"} /\ pc \in AfterTypes

DetailsDone ==
    script \in {"filtered_analysis", "detailed_analysis"}
    /\ pc \in AfterDetails

TemporalDone ==
    script \in {"analyze_dc_reports", "filtered_analysis"}
    /\ pc \in AfterTemporal

ReportDone == pc \in AfterReport

\* The rows of df that are DC Report records.
DCRows == {k \in 1..Len(df) : df[k].report_type = <<"DC Report">>}

\* C5: in the reports of filtered_analysis and detailed_analysis the count
\* listed for a disaster type is the number of DC Report records of that
\* type, the listed counts sum to the number of DC Report records, and the
\* most frequent type reported has the largest number of records.  The type
\* of a record is taken as the report takes it, from the detail label of
\* the record, and the input holds no record-start line with fewer than 5
\* fields.
C5_ReportedTypeCountsAreRecordCounts ==
    (/\ ReportDone
     /\ script \in {"filtered_analysis", "detailed_analysis"}
     /\ \A n \in 1..Len(lines) : ~MalformedStart(lines[n])) =>
        LET rows == 1..Len(dc_reports_detailed)
            type(k) == RecalcType(dc_reports_detailed[k].disaster_detail)
            records(t) == Cardinality({k \in rows : type(k) = t})
            listed == report.disaster_type_counts
        IN /\ Len(dc_reports_detailed) = Cardinality(DCRows)
           /\ \A t \in DOMAIN listed : listed[t] = records(t)
           /\ Total(listed) = Cardinality(DCRows)
           /\ \A k \in rows :
                  records(type(k)) <= records(report.most_common_disaster)

\* The sum of the counts of a column of labels, label by label.
LabelTotal(frame, field) ==
    LET labels == {frame[k][field] : k \in 1..Len(frame)}
        count(v) == Cardinality({k \in 1..Len(frame) : frame[k][field] = v})
        RECURSIVE sum(_)
        sum(S) == IF S = {} THEN 0
                  ELSE LET v == CHOOSE w \in S : TRUE
                       IN count(v) + sum(S \ {v})
    IN sum(labels)

\* The rows of a classified frame are the DC Report rows of df, in order.
IsDCRowsOf(frame) ==
    /\ Len(frame) = Cardinality(DCRows)
    /\ \A k \in 1..Len(frame) :
           /\ frame[k].report_type = <<"DC Report">>
           /\ LET src == CHOOSE m \in DCRows :
                             Cardinality({o \in DCRows : o <= m}) = k
              IN /\ frame[k].message = df[src].message
                 /\ frame[k].timestamp = df[src].timestamp

\* C6: the direct classifiers classify exactly the DC Report records: the
\* classified frame holds the DC Report rows and no other row, and the
\* counts of its types (and of its details) sum to the number of DC Report
\* records.
C6_OnlyDCReportsClassified ==
    /\ TypesDone =>
           /\ IsDCRowsOf(dc_reports)
           /\ LabelTotal(dc_reports, "disaster_type") = Cardinality(DCRows)
    /\ DetailsDone =>
           /\ IsDCRowsOf(dc_reports_detailed)
           /\ LabelTotal(dc_reports_detailed, "disaster_detail")
                  = Cardinality(DCRows)

\* A record set with a DCX record between two DC Report records has been
\* classified.
C6_Witness ==
    /\ TypesDone
    /\ Len(df) = 3
    /\ df[1].report_type = <<"DC Report">>
    /\ df[2].report_type = <<"DCX">>
    /\ df[3].report_type = <<"DC Report">>
    /\ Len(dc_reports) = 2

\* C9: the hourly series of analyze_temporal_patterns has exactly 24
\* entries, one for each hour 0..23 in ascending order, 0 for an hour
\* without records, and its values sum to the number of records.
C9_HourlySeriesDense ==
    TemporalDone =>
        /\ Len(hourly_counts) = 24
        /\ \A h \in 0..23 :
               /\ hourly_counts[h + 1][1] = h
               /\ hourly_counts[h + 1][2] =
                      Cardinality({k \in 1..Len(df) : df[k].hour = h})

\* The instant of the timestamp text of a parsed record: the seconds from
\* the start of its day, and its day of the year in 31-day months.
SecondsOfDay(t) == (to_int(t[6]) * 60 + to_int(t[8])) * 60 + to_int(t[10])

DayNumber(t) == to_int(t[2]) * 31 + to_int(t[4])

\* At or after 2025-08-22 00:00:00.
AtOrAfterCutoff(t) == DayNumber(t) >= 8 * 31 + 22

\* The parsed records that are at or after the cutoff.
KeptRefs == {k \in 1..Len(data) : AtOrAfterCutoff(objs[data[k]].timestamp)}

\* C10: the filtering scripts keep exactly the parsed records whose
\* timestamp is at or after 2025-08-22 00:00:00, in their order, and what is
\* computed afterwards counts the records of this subset only.
C10_FilterKeepsFromCutoff ==
    (script \in {"filtered_analysis", "hourly_trend_analysis"}
     /\ pc \notin {"load", "failed", "classify"}) =>
        /\ Len(df) = Cardinality(KeptRefs)
        /\ \A k \in 1..Len(df) :
               LET src == CHOOSE m \in KeptRefs :
                              Cardinality({o \in KeptRefs : o <= m}) = k
                   rec == objs[data[src]]
               IN /\ df[k].message = rec.message
                  /\ df[k].report_type = rec.report_type
                  /\ df[k].satellite = rec.satellite
                  /\ df[k].timestamp =
                         DayNumber(rec.timestamp) * 86400
                             + SecondsOfDay(rec.timestamp)
        /\ TypesDone =>
               Len(dc_reports) =
                   Cardinality({k \in KeptRefs :
                       objs[data[k]].report_type = <<"DC Report">>})
        /\ TemporalDone =>
               LET RECURSIVE sum(_)
                   sum(n) == IF n = 0 THEN 0
                             ELSE hourly_counts[n][2] + sum(n - 1)
               IN sum(Len(hourly_counts)) = Cardinality(KeptRefs)
        /\ ReportDone =>
               (IF script = "hourly_trend_analysis"
                THEN report.total_reports
                ELSE report.total_records) = Cardinality(KeptRefs)

\* A run of filtered_analysis has parsed a record before the cutoff, a record
\* exactly at the cutoff and a later record, and has kept the last two.
C10_Witness ==
    /\ script = "filtered_analysis"
    /\ pc = "done"
    /\ lines = <<LineBeforeCutoff, LineAtCutoff, LineDCX>>
    /\ Len(df) = 2
    /\ df[1].timestamp = filter_date
    /\ report.total_records = 2

---------------------------------------------------------------------------
(* Properties of the hourly bucket series *)

\* The statements of hourly_trend_analysis.main() after
\* create_hourly_trend_visualization has returned.
AfterHourly ==
    {"create_enhanced_visualization", "generate_trend_report", "write_report",
     "done"}

HourlyDone == script = "hourly_trend_analysis" /\ pc \in AfterHourly

\* 2025-08-22 00:00:00 in seconds, months counted as 31 days.
CutoffSeconds == (8 * 31 + 22) * 86400

\* The rows of df whose timestamp lies in bucket n of hourly_df.
RowsInBucket(n) ==
    {k \in 1..Len(df) : /\ hourly_df[n].hour_start <= df[k].timestamp
                        /\ df[k].timestamp < hourly_df[n].hour_end}

\* C11: the bucket series of create_hourly_trend_visualization consists of
\* consecutive one-hour buckets [h, h + 1 h), the first starting at the
\* cutoff and the last holding the maximum timestamp; every bucket between
\* is present, also when it holds no record; every filtered record is
\* counted in exactly one bucket, so the totals sum to the number of
\* filtered records, which is the total the trend report gives.
C11_HourlyBucketsCoverFilteredRecords ==
    HourlyDone =>
        /\ Len(hourly_df) >= 1
        /\ hourly_df[1].hour_start = CutoffSeconds
        /\ \A n \in 1..Len(hourly_df) :
               /\ hourly_df[n].hour_end = hourly_df[n].hour_start + 3600
               /\ n > 1 => hourly_df[n].hour_start = hourly_df[n - 1].hour_end
               /\ hourly_df[n].total = Cardinality(RowsInBucket(n))
               /\ hourly_df[n].dc_report =
                      Cardinality({k \in RowsInBucket(n) :
                                      df[k].report_type = <<"DC Report">>})
               /\ hourly_df[n].dcx =
                      Cardinality({k \in RowsInBucket(n) :
                                      df[k].report_type = <<"DCX">>})
        /\ RowsInBucket(Len(hourly_df)) # {}
        /\ \A k \in 1..Len(df) :
               Cardinality({n \in 1..Len(hourly_df) : k \in RowsInBucket(n)})
                   = 1
        /\ SumColumn(hourly_df, "total", Len(hourly_df)) = Len(df)
        /\ ReportDone => report.total_reports = Len(df)

\* A run of hourly_trend_analysis on a record at the cutoff and two records
\* in the hour from 06:00 has built 7 buckets, 5 of them empty.
C11_Witness ==
    /\ script = "hourly_trend_analysis"
    /\ pc = "done"
    /\ lines = <<LineAtCutoff, LineFloodWarning, LineDCX>>
    /\ Len(hourly_df) = 7
    /\ hourly_df[1].total = 1
    /\ \A n \in 2..6 : hourly_df[n].total = 0
    /\ hourly_df[7].total = 2
    /\ report.total_reports = 3

---------------------------------------------------------------------------
(* Properties of the failures *)

\* The text has the shape  YYYY/MM/DD HH:MM:SS JST  with a month 01..12, a
\* day 01..31, an hour 00..23, a minute and a second 00..59.
HasFixedFormat(t) ==
    /\ Len(t) = 12
    /\ <<t[1], t[3], t[5], t[7], t[9], t[11], t[12]>>
           = <<"2025/", "/", " ", ":", ":", " ", "JST">>
    /\ \E n \in 2..13 : TwoDigits[n] = t[2]
    /\ \E n \in 2..32 : TwoDigits[n] = t[4]
    /\ \E n \in 1..24 : TwoDigits[n] = t[6]
    /\ \E n \in 1..60 : TwoDigits[n] = t[8]
    /\ \E n \in 1..60 : TwoDigits[n] = t[10]

\* The load function has ended, by returning or by raising.
LoadEnded == pc \notin {"load", "classify"}

\* Nothing has been computed, drawn or written.
NothingProduced ==
    /\ df = <<>>
    /\ dc_reports = <<>>
    /\ dc_reports_detailed = <<>>
    /\ hourly_counts = <<>>
    /\ hourly_df = <<>>
    /\ charts = [saved |-> {}]
    /\ report = [sections |-> {}]

\* C12: when the timestamp field of one parsed record does not match the
\* fixed format, loading fails for the whole batch: the run is aborted, no
\* record set is returned (the valid records are not kept), and no
\* aggregate, chart or report is produced.
C12_BadTimestampFailsBatch ==
    (/\ LoadEnded
     /\ \E k \in 1..Len(data) : ~HasFixedFormat(objs[data[k]].timestamp))
        => (pc = "failed" /\ NothingProduced)

\* A batch of a valid record, a record with a timestamp without seconds and
\* another valid record has been parsed, and the run has failed.
C12_Witness ==
    /\ pc = "failed"
    /\ lines = <<LineAtCutoff, LineBadTimestamp, LineDCX>>
    /\ Len(data) = 3
    /\ HasFixedFormat(objs[data[1]].timestamp)
    /\ ~HasFixedFormat(objs[data[2]].timestamp)
    /\ NothingProduced

---------------------------------------------------------------------------
(* Properties of the record-start lines *)

\* The position in objs of the record started by the valid start line k.
RecordOfStart(k) == Cardinality(ValidStartsUpTo(k))

\* The last valid record-start line before line n, 0 when there is none.
LastValidStartBefore(n) ==
    LET before == ValidStartsUpTo(n - 1)
    IN IF before = {} THEN 0
       ELSE CHOOSE k \in before : \A m \in before : m <= k

\* The parsed records are well formed and, in a filtering script, at least
\* one of them is from the cutoff on.
LoadableRecords ==
    /\ data # <<>>
    /\ \A k \in 1..Len(data) : HasFixedFormat(objs[data[k]].timestamp)
    /\ script \in {"filtered_analysis", "hourly_trend_analysis"}
           => KeptRefs # {}

\* C13: a record-start line with fewer than 5 fields is recovered locally.
\* Parsing does not abort (the loop reads every line and the run does not
\* fail when the records are loadable); the line itself produces no record
\* (there is one record dict for each valid start line, with the fields of
\* that line, and the output refers to these dicts only); the record that
\* was open before the line is in the output; and every later valid start
\* line yields its own record, which is in the output when the load ends.
C13_MalformedStartRecoveredLocally ==
    /\ LoadEnded => i = Len(lines) + 1
    /\ (LoadEnded /\ LoadableRecords) => pc # "failed"
    /\ pc # "classify" =>
           /\ Len(objs) = Cardinality(ValidStartsUpTo(i - 1))
           /\ \A k \in 1..Len(data) : data[k] \in 1..Len(objs)
           /\ \A k \in ValidStartsUpTo(i - 1) :
                  LET rec == objs[RecordOfStart(k)]
                      segment == FactsOf(lines[k]).segment
                  IN /\ rec.timestamp = segment[1]
                     /\ rec.report_type = segment[2]
                     /\ rec.satellite = segment[3]
                     /\ rec.priority = segment[4]
                     /\ LoadEnded =>
                            \E m \in 1..Len(data) : data[m] = RecordOfStart(k)
           /\ \A n \in 1..(i - 1) :
                  (FactsOf(lines[n]).malformed /\ LastValidStartBefore(n) # 0)
                      => \E m \in 1..Len(data) :
                             data[m] = RecordOfStart(LastValidStartBefore(n))

\* A run on a valid start line, a start line with 2 fields and another valid
\* start line has ended without failure with both records in the output.
C13_Witness ==
    /\ pc = "done"
    /\ lines = <<LineAtCutoff, LineMalformed, LineDCX>>
    /\ Len(objs) = 2
    /\ \E m \in 1..Len(data) : data[m] = 1
    /\ \E m \in 1..Len(data) : data[m] = 2
    /\ objs[2].report_type = <<"DCX">>

\* C14: parsing fails with an error when it meets a line that has the
\* record-start signature and fewer than 5 comma-separated fields: once the
\* load function has ended on an input with such a line, the run has failed
\* and has returned no records.
C14_MalformedStartFailsParse ==
    (LoadEnded /\ \E n \in 1..Len(lines) : MalformedStart(lines[n]))
        => (pc = "failed" /\ df = <<>>)

---------------------------------------------------------------------------
(* Properties of the percentages *)

\* p is count / total * 100 in tenths of a percent, to the nearest tenth.
IsPercentOf(p, count, total) ==
    LET d == p * total - 1000 * count
    IN total > 0 /\ 2 * d <= total /\ 2 * (0 - d) <= total

\* The number of rows of a frame with a value in a column.
RowsWith(frame, field, v) ==
    Cardinality({k \in 1..Len(frame) : frame[k][field] = v})

\* Every percentage of a printed or written breakdown is its count over the
\* denominator.
BreakdownOver(counts, pct, denominator) ==
    /\ DOMAIN pct = DOMAIN counts
    /\ \A v \in DOMAIN pct : IsPercentOf(pct[v], counts[v], denominator)

HasPrinted(function) == function \in printed.functions

RECURSIVE SumValues(_, _)
SumValues(series, keys) ==
    IF keys = {} THEN 0
    ELSE LET v == CHOOSE w \in keys : TRUE
         IN series[v] + SumValues(series, keys \ {v})

\* The detail labels that occur on at least one DC Report record.
OccurringDetails ==
    {dc_reports_detailed[k].disaster_detail :
        k \in 1..Len(dc_reports_detailed)}

\* C16: the detailed disaster-type breakdown written to the report lists
\* every detail label that occurs on a DC Report record, whatever the set of
\* labels; the listed counts sum to the number of DC Report records and the
\* listed percentages sum to 100.0 within 0.1 for each label listed.
C16_DetailBreakdownComplete ==
    (ReportDone /\ script \in {"filtered_analysis", "detailed_analysis"}) =>
        LET listed == DOMAIN report.listed_details
            sum == SumValues(report.listed_details_pct, listed)
        IN /\ listed = OccurringDetails
           /\ SumValues(report.listed_details, listed) = Cardinality(DCRows)
           /\ Cardinality(DCRows) > 0 =>
                  /\ sum - 1000 <= Cardinality(listed)
                  /\ 1000 - sum <= Cardinality(listed)

\* The first n tokens of a sequence, all of it when it has fewer.
Prefix(s, n) == SubSeq(s, 1, IF n < Len(s) THEN n ELSE Len(s))

\* C17: a valid record-start line is split at its first 4 commas only: the
\* timestamp, report_type, satellite and priority of its record are the
\* first four comma-separated segments, and the message begins with the
\* whole remainder of the line, every later comma kept; the record has these
\* five fields and no other, and the line starts one record only.
C17_SplitAtFirstFourCommas ==
    pc # "classify" =>
        /\ Len(objs) = Cardinality(ValidStartsUpTo(i - 1))
        /\ \A k \in ValidStartsUpTo(i - 1) :
               LET rec == objs[RecordOfStart(k)]
                   rest == FactsOf(lines[k]).fifth
               IN /\ DOMAIN rec = {"timestamp", "report_type", "satellite",
                                   "priority", "message"}
                  /\ \A f \in {"timestamp", "report_type", "satellite",
                               "priority"} :
                         \A n \in 1..Len(rec[f]) : rec[f][n] # ","
                  /\ rec.timestamp \o <<",">> \o rec.report_type \o <<",">>
                         \o rec.satellite \o <<",">> \o rec.priority
                         \o <<",">> \o Prefix(rec.message, Len(rest))
                     = FactsOf(lines[k]).trimmed
                  /\ Commas(Prefix(rec.message, Len(rest)))
                         = FactsOf(lines[k]).commas - 4

\* A record-start line whose message holds a comma has been parsed: the
\* comma is in the message of its record and the DCX record is one record.
C17_Witness ==
    /\ pc = "done"
    /\ lines = <<LineAtCutoff, LineDCX>>
    /\ Len(objs) = 2
    /\ objs[2].message = <<"Test message", ",", "with comma">>
    /\ objs[2].priority = <<"2">>
    /\ Len(df) = 2
    /\ df[2].message = <<"Test message", ",", "with comma">>

---------------------------------------------------------------------------
(* Properties of the lines that start no record *)

\* The lines without the blank ones.
WithoutBlankLines(ls) == SelectSeq(ls, LAMBDA l : ~FactsOf(l).blank)

\* The state of the parser in the current state.
ParserState ==
    [objs |-> objs, data |-> data, current_record |-> current_record]

\* C18: blank lines (empty or only white space) never affect parsing.  At
\* every point of the loop the records, their messages, the output sequence
\* and the open record are those the same lines give with the blank lines
\* removed, and so is the result of the load: a blank line ends no record
\* and adds nothing to a message, wherever it stands.
C18_BlankLinesNeverAffectParsing ==
    /\ pc = "load" =>
           LET kept == WithoutBlankLines(SubSeq(lines, 1, i - 1))
           IN ParserState = LoopOver(kept, Len(kept))
    /\ LoadEnded => ParserState = ParsedRecords(WithoutBlankLines(lines))

\* A blank line between a record-start line and its continuation line has
\* been read: the record is still open, and at the end the message is that
\* of the input without the blank line.
C18_Witness ==
    /\ LoadEnded
    /\ lines = <<LineDCX, LineBlank, LineContinuation>>
    /\ Len(objs) = 1
    /\ data = <<1>>
    /\ objs[1].message = <<"Test message", ",", "with comma", "\n",
                           "continuation of test">>
    /\ ParserState = ParsedRecords(<<LineDCX, LineContinuation>>)

\* Line n is not blank, has no record-start signature and is read while no
\* record is open: no valid record-start line stands before it.
OrphanLine(n) ==
    /\ ~FactsOf(lines[n]).blank
    /\ ~FactsOf(lines[n]).signature
    /\ ValidStartsUpTo(n - 1) = {}

\* The lines up to line n that are not orphan lines, in their order.
RECURSIVE NotOrphanUpTo(_)
NotOrphanUpTo(n) ==
    IF n = 0 THEN <<>>
    ELSE IF OrphanLine(n) THEN NotOrphanUpTo(n - 1)
    ELSE Append(NotOrphanUpTo(n - 1), lines[n])

\* C19: a non-blank line without the record-start signature that is read
\* while no record is open is discarded.  It leaves the parser as it was (no
\* record, an empty output, no open record), and the records, the messages
\* and the output sequence are at every point those of the input without
\* such lines, so its text is in no message.
C19_OrphanLineDiscarded ==
    /\ (pc = "load" /\ ValidStartsUpTo(i - 1) = {}) =>
           ParserState = [objs |-> <<>>, data |-> <<>>, current_record |-> 0]
    /\ pc = "load" =>
           LET kept == NotOrphanUpTo(i - 1)
           IN ParserState = LoopOver(kept, Len(kept))
    /\ LoadEnded =>
           ParserState = ParsedRecords(NotOrphanUpTo(Len(lines)))

\* A continuation line before the first record-start line has been read and
\* the same line after it: the message of the record holds the text once,
\* from the line after the start line.
C19_Witness ==
    /\ LoadEnded
    /\ lines = <<LineContinuation, LineDCX, LineContinuation>>
    /\ OrphanLine(1)
    /\ ~OrphanLine(3)
    /\ Len(objs) = 1
    /\ data = <<1>>
    /\ objs[1].message = <<"Test message", ",", "with comma", "\n",
                           "continuation of test">>

\* A line with the record-start signature stands after line k among the
\* lines read so far.
StartReadAfter(k) ==
    \E m \in (k + 1)..(i - 1) : FactsOf(lines[m]).signature

\* C20: the records are in the output in the order of their record-start
\* lines.  During the loop a record is in the output exactly when a line with
\* the record-start signature has been read after its start line; the output
\* never holds a record before an earlier-started one; at the end of the
\* input the record still open is appended as the last element; and the
\* frame of a script that does not filter has its rows in this order.
C20_RecordsInStartLineOrder ==
    pc # "classify" =>
        /\ \A a \in 1..Len(data) : \A b \in a..Len(data) : data[a] <= data[b]
        /\ pc = "load" =>
               \A k \in ValidStartsUpTo(i - 1) :
                   (\E m \in 1..Len(data) : data[m] = RecordOfStart(k))
                       <=> StartReadAfter(k)
        /\ (LoadEnded /\ objs # <<>>) =>
               /\ data # <<>>
               /\ data[Len(data)] = Len(objs)
               /\ \A r \in 1..Len(objs) : \E m \in 1..Len(data) : data[m] = r
        /\ (LoadEnded /\ pc # "failed"
              /\ script \in {"analyze_dc_reports", "detailed_analysis"}) =>
               /\ Len(df) = Len(data)
               /\ \A k \in 1..Len(df) :
                      df[k].message = objs[data[k]].message

\* Three records whose timestamps go backwards have been parsed by a script
\* that does not filter: the output and the frame are in the order of the
\* lines, not of the timestamps.
C20_Witness ==
    /\ pc = "done"
    /\ script = "analyze_dc_reports"
    /\ lines = <<LineDCX, LineAtCutoff, LineBeforeCutoff>>
    /\ data = <<1, 2, 3>>
    /\ df[1].timestamp > df[2].timestamp
    /\ df[2].timestamp > df[3].timestamp
    /\ df[1].report_type = <<"DCX">>

---------------------------------------------------------------------------
(* Properties of the sub-markers *)

\* The sub-markers of each category in the order of their tests, in the
\* order of TypesEn.
SubMarkers ==
    << <<SEDIMENT_SUB, HEAVY_RAIN_SUB, FLOOD_WARNING_SUB>>,
       <<>>,
       <<DENSE_FOG_SUB, MARINE_WIND_SUB>>,
       <<FLOOD_RISK_SUB>>,
       <<>> >>

\* The detail labels of each category, one for each sub-marker and then the
\* generic label of the category.
SubLabelsEn ==
    << << <<"Sediment", "Disaster", "Warning">>, <<"Heavy", "Rain", "Warning">>,
          <<"Flood", "Warning">>, <<"Weather", "Other">> >>,
       << <<"Earthquake", "Information">> >>,
       << <<"Marine", "Dense", "Fog", "Warning">>,
          <<"Marine", "Wind", "Warning">>, <<"Marine", "Other">> >>,
       << <<"Flood", "Risk", "Information">>, <<"Flood", "Other">> >>,
       << <<"Other">> >> >>

SubLabelsJa ==
    << << <<"DOSHA", "SAIGAI", "KEIKAI", "JOHO">>, <<"OAME", "KEIHO">>,
          <<"KOZUI", "KEIHO">>, <<"KISHO", "SONOTA">> >>,
       << <<"JISHIN", "JOHO">> >>,
       << <<"KAIJO", "NOMU", "KEIHO">>, <<"KAIJO", "KAZE", "KEIHO">>,
          <<"KAIJO", "SONOTA">> >>,
       << <<"HANRAN", "KEIKAI", "JOHO">>, <<"KOZUI", "SONOTA">> >>,
       << <<"SONOTA">> >> >>

\* The position of the first sub-marker of category c, in the order of its
\* tests, that the message holds; one more than their number when it holds
\* none.
FirstSubMarker(message, c) ==
    LET held == {n \in 1..Len(SubMarkers[c]) :
                    \E k \in 1..Len(message) : message[k] = SubMarkers[c][n]}
    IN IF held = {} THEN Len(SubMarkers[c]) + 1
       ELSE CHOOSE n \in held : \A m \in held : n <= m

\* The tokens of the message that are sub-markers of another category than c.
ForeignSubMarkers(message, c) ==
    {message[k] : k \in 1..Len(message)}
        \cap UNION {{SubMarkers[d][n] : n \in 1..Len(SubMarkers[d])} :
                       d \in (1..5) \ {c}}

\* C21: the detail label of a message is decided inside the category of the
\* first category marker it holds: it is the label of the first sub-marker
\* of that category, in the order of the tests, that the message holds, and
\* the generic label of the category when it holds none; the sub-markers of
\* the other categories that the message holds change nothing.
C21_SubMarkersInsideCategory ==
    cls.done =>
        LET c == FirstCategory(msg)
            n == FirstSubMarker(msg, c)
            own == SelectSeq(msg,
                             LAMBDA t : t \notin ForeignSubMarkers(msg, c))
        IN /\ cls.detail_en = SubLabelsEn[c][n]
           /\ cls.detail_ja = SubLabelsJa[c][n]
           /\ cls.detail_en = disaster_detail_en(own)
           /\ cls.detail_ja = disaster_detail_ja(own)

\* A weather message that holds the flood-warning and the heavy-rain
\* sub-marker, in this order, and a marine sub-marker has been classified as
\* a heavy rain warning.
C21_Witness ==
    /\ cls.done
    /\ Len(msg) = 4
    /\ msg[1] = DENSE_FOG_SUB
    /\ msg[2] = FLOOD_WARNING_SUB
    /\ msg[3] = HEAVY_RAIN_SUB
    /\ msg[4] = WEATHER_MARKER
    /\ cls.detail_en = <<"Heavy", "Rain", "Warning">>
    /\ cls.detail_ja = <<"OAME", "KEIHO">>

\* C22: the type classifier and the detail classifier of filtered_analysis
\* agree on every message: the detail label is one of the labels of the
\* disaster type (weather details only with Weather, Earthquake Information
\* only with Earthquake, marine details only with Marine, flood details only
\* with Flood, Other only with Other).
C22_TypeAndDetailAgree ==
    cls.done =>
        \A c \in 1..5 :
            (cls.type_en = TypesEn[c]) <=> (cls.detail_en \in DetailsEn[c])

\* A message with the flood marker and the heavy-rain sub-marker has been
\* classified as Flood and Flood Other.
C22_Witness ==
    /\ cls.done
    /\ msg = <<HEAVY_RAIN_SUB, FLOOD_MARKER>>
    /\ cls.type_en = "Flood"
    /\ cls.detail_en = <<"Flood", "Other">>

---------------------------------------------------------------------------
(* Properties of the cross-tabulations *)

\* The number of rows of df whose field has the value v.
RecordsWith(field, v) ==
    Cardinality({k \in 1..Len(df) : df[k][field] = v})

\* The sum of the totals of the printed rows.
RECURSIVE SumTotals(_, _)
SumTotals(rows, keys) ==
    IF keys = {} THEN 0
    ELSE LET v == CHOOSE w \in keys : TRUE
         IN rows[v].total + SumTotals(rows, keys \ {v})

\* The printed rows of one cross-tabulation have the record counts as their
\* totals, and the totals sum to the number of records.
TotalsAreRecordCounts(rows, field) ==
    /\ \A v \in DOMAIN rows : rows[v].total = RecordsWith(field, v)
    /\ SumTotals(rows, DOMAIN rows) = Len(df)

\* C23: in analyze_temporal_patterns_detailed and
\* analyze_satellite_performance the total printed for each hour, date and
\* satellite row is the number of parsed records with that hour, date or
\* satellite, whatever report types occur, and the printed totals of each
\* cross-tabulation sum to the number of records.
C23_RowTotalsCountAllRecords ==
    /\ HasPrinted("analyze_temporal_patterns_detailed") =>
           /\ TotalsAreRecordCounts(
                  printed.analyze_temporal_patterns_detailed.hourly, "hour")
           /\ TotalsAreRecordCounts(
                  printed.analyze_temporal_patterns_detailed.daily, "date")
    /\ HasPrinted("analyze_satellite_performance") =>
           TotalsAreRecordCounts(
               printed.analyze_satellite_performance.satellite, "satellite")

---------------------------------------------------------------------------
(* Properties of the files a run writes *)

\* The files written by the run so far: the chart images saved and the
\* report file.
FilesWritten ==
    charts.saved \cup (IF "file" \in DOMAIN report THEN {report.file} ELSE {})

\* C24: a run never leaves partial results: when a stage of the run has
\* failed (load, filter, aggregation, chart rendering or report generation),
\* the run has written no chart image and no report file, in each of the
\* four scripts.
C24_NoPartialResults ==
    pc = "failed" => FilesWritten = {}

\* The chart functions have returned.
ChartsDone ==
    pc \in {"generate_summary_report", "generate_detailed_report",
            "write_report", "done"}

\* The load has given a non-empty record set without a DC Report record to
\* a script that has a disaster aggregate.
NoDCReportLoaded ==
    /\ script \in {"analyze_dc_reports", "filtered_analysis",
                   "detailed_analysis"}
    /\ LoadEnded
    /\ df # <<>>
    /\ CountType(df, DC_REPORT) = 0

\* C25: when the record set is non-empty and holds no DC Report record, the
\* disaster aggregates are empty, the disaster chart is not drawn, the
\* report has no disaster section, and the run goes on without failure until
\* it has written the report.
C25_NoDCReportOmitsDisasterParts ==
    NoDCReportLoaded =>
        /\ pc # "failed"
        /\ pc # "done" => ENABLED Next
        /\ dc_reports = <<>>
        /\ dc_reports_detailed = <<>>
        /\ ChartsDone =>
               /\ charts.saved \cap {"disaster_types_analysis.png",
                                     "filtered_disaster_analysis.png"} = {}
               /\ charts.detail_pie = EmptySeries
               /\ script # "detailed_analysis" =>
                      charts.disaster_pie = EmptySeries
        /\ ReportDone =>
               /\ report.sections \cap {"disaster_types", "most_common",
                                        "disaster_details"} = {}
               /\ report.disaster_type_counts = EmptySeries
               /\ report.disaster_details = EmptySeries
        /\ pc = "done" => report.file = ReportFile

\* A run of analyze_dc_reports on two DCX records has ended: one chart, a
\* report without disaster sections, and the report file.
C25_Witness ==
    /\ pc = "done"
    /\ script = "analyze_dc_reports"
    /\ lines = <<LineDCX, LineDCX>>
    /\ Len(df) = 2
    /\ dc_reports = <<>>
    /\ charts.saved = {"dc_reports_analysis.png"}
    /\ report.sections = {"overview", "report_types", "satellites", "findings"}
    /\ report.file = "dc_reports_analysis_report.md"

\* C26: for an input without a valid record-start line (an empty file, only
\* blank lines, only continuation lines or only record-start lines with
\* fewer than 5 fields) the load function returns an empty record sequence
\* and does not fail.
C26_NoValidStartLoadsEmpty ==
    (LoadEnded /\ ValidStartsUpTo(Len(lines)) = {}) =>
        (pc # "failed" /\ data = <<>> /\ df = <<>>)

============================================================================
